---- MODULE Spec2Model ----
(***************************************************************************)
(* A model of the DataScrubber of analytics_project.data_preparation: one  *)
(* labelled table (columns x rows) held by a scrubber object, the table    *)
(* object the caller handed in, and one action per DataScrubber method;    *)
(* and of the programs around it: the scripts that drive the scrubber, the *)
(* readers of raw CSV files, the preparation stages and the loader of the  *)
(* warehouse, over the CSV files on disk and the committed database.       *)
(*                                                                         *)
(* Text is a sequence of one-character strings, so that trimming, casing   *)
(* and the camelCase conversion are computed character by character.       *)
(* A cell is a record [t, n, s]: a missing value (NaN/None/NaT), a number, *)
(* a text or a timestamp.                                                  *)
(***************************************************************************)
EXTENDS Integers, Sequences, FiniteSets, TLC

VARIABLES
    df,       \* self.df, the scrubber's current table
    caller,   \* the table object that was handed to DataScrubber(df)
    aliased,  \* self.df still is that object
    ret,      \* what the last call returned
    raised,   \* the exception the last call raised, or "none"
    lastOp,   \* the last call: method name and arguments
    pre,      \* self.df before the last call
    left,     \* the number of calls the driver still makes
    files,    \* the CSV files on disk, by path
    disk,     \* the committed contents of the warehouse data/dw/smart_sales.db
    log,      \* the levels of the records the last call logged
    run       \* where a running script is, and its exit code

vars == <<df, caller, aliased, ret, raised, lastOp, pre, left, files, disk,
          log, run>>

(***************************************************************************)
(* Bounds of the model.                                                    *)
(***************************************************************************)
MaxRows == 3
MaxSteps == 2
MaxLoads == 2

(***************************************************************************)
(* Characters and text.                                                    *)
(***************************************************************************)
UpperChars == <<"A","B","C","D","E","F","G","H","I","J","K","L","M",
                "N","O","P","Q","R","S","T","U","V","W","X","Y","Z">>
LowerChars == <<"a","b","c","d","e","f","g","h","i","j","k","l","m",
                "n","o","p","q","r","s","t","u","v","w","x","y","z">>
DigitChars == <<"0","1","2","3","4","5","6","7","8","9">>

Range(f) == {f[i] : i \in DOMAIN f}

IsUpper(c) == c \in Range(UpperChars)
IsLower(c) == c \in Range(LowerChars)
IsDigit(c) == c \in Range(DigitChars)
IsSpace(c) == c = " "

PosIn(seq, c) == CHOOSE i \in DOMAIN seq : seq[i] = c

\* str.lower() and str.upper() on one character
LowerChar(c) == IF IsUpper(c) THEN LowerChars[PosIn(UpperChars, c)] ELSE c
UpperChar(c) == IF IsLower(c) THEN UpperChars[PosIn(LowerChars, c)] ELSE c

Lower(s) == [i \in DOMAIN s |-> LowerChar(s[i])]
Upper(s) == [i \in DOMAIN s |-> UpperChar(s[i])]

RECURSIVE LStrip(_)
LStrip(s) == IF s # <<>> /\ IsSpace(Head(s)) THEN LStrip(Tail(s)) ELSE s

RECURSIVE RStrip(_)
RStrip(s) ==
    IF s # <<>> /\ IsSpace(s[Len(s)]) THEN RStrip(SubSeq(s, 1, Len(s) - 1)) ELSE s

\* str.strip()
Strip(s) == RStrip(LStrip(s))

\* str.title(): a letter that follows a non-letter is upper-cased, any other
\* letter is lower-cased
Title(s) ==
    [i \in DOMAIN s |->
        IF i = 1 \/ ~(IsUpper(s[i - 1]) \/ IsLower(s[i - 1]))
        THEN UpperChar(s[i])
        ELSE LowerChar(s[i])]

\* re.sub(r"(?<=[a-z0-9])(?=[A-Z])", "_", name)
RECURSIVE InsertUnderscores(_)
InsertUnderscores(s) ==
    IF Len(s) <= 1 THEN s
    ELSE IF (IsLower(s[1]) \/ IsDigit(s[1])) /\ IsUpper(s[2])
         THEN <<s[1], "_">> \o InsertUnderscores(Tail(s))
         ELSE <<s[1]>> \o InsertUnderscores(Tail(s))

camel_to_snake(name) == Lower(InsertUnderscores(Strip(name)))

(***************************************************************************)
(* Cells.                                                                  *)
(***************************************************************************)
NA == [t |-> "na", n |-> 0, s |-> <<>>]
Num(k) == [t |-> "num", n |-> k, s |-> <<>>]
Str(x) == [t |-> "str", n |-> 0, s |-> x]
Date(x) == [t |-> "date", n |-> 0, s |-> x]

IsMissing(c) == c.t = "na"

\* the decimal digits of a natural number
RECURSIVE NatText(_)
NatText(k) ==
    IF k < 10 THEN <<DigitChars[k + 1]>>
    ELSE NatText(k \div 10) \o <<DigitChars[(k % 10) + 1]>>

IntText(k) == IF k < 0 THEN <<"-">> \o NatText(0 - k) ELSE NatText(k)

\* the value of a non-empty sequence of digits
RECURSIVE DigitsValue(_)
DigitsValue(s) ==
    IF s = <<>> THEN 0
    ELSE 10 * DigitsValue(SubSeq(s, 1, Len(s) - 1)) + (PosIn(DigitChars, s[Len(s)]) - 1)

AllDigits(s) == s # <<>> /\ \A i \in DOMAIN s : IsDigit(s[i])

\* a text is a number when, trimmed, it is an optional sign and digits
IsNumericText(s) ==
    LET x == Strip(s) IN
    \/ AllDigits(x)
    \/ x # <<>> /\ x[1] = "-" /\ AllDigits(Tail(x))

NumericTextValue(s) ==
    LET x == Strip(s) IN
    IF x[1] = "-" THEN 0 - DigitsValue(Tail(x)) ELSE DigitsValue(x)

\* a text is a date when, trimmed, it is three groups of digits joined by "-"
IsDateText(s) ==
    LET x == Strip(s) IN
    \E i, j \in DOMAIN x :
        /\ i < j
        /\ x[i] = "-" /\ x[j] = "-"
        /\ AllDigits(SubSeq(x, 1, i - 1))
        /\ AllDigits(SubSeq(x, i + 1, j - 1))
        /\ AllDigits(SubSeq(x, j + 1, Len(x)))

\* .astype(str) on one cell
AsTypeStr(c) ==
    CASE c.t = "na" -> Str(<<"n","a","n">>)
      [] c.t = "num" -> Str(IntText(c.n))
      [] c.t = "str" -> c
      [] c.t = "date" -> Str(c.s)

\* pd.to_numeric(..., errors="coerce") on one cell; the number a timestamp
\* stands for lies outside every bound used here and is left out
ToNumeric(c) ==
    CASE c.t = "na" -> NA
      [] c.t = "num" -> c
      [] c.t = "str" -> IF IsNumericText(c.s) THEN Num(NumericTextValue(c.s)) ELSE NA
      [] c.t = "date" -> NA

\* pd.to_datetime(..., errors="coerce") on one cell; a number is read as
\* an offset from the epoch
ToDatetime(c) ==
    CASE c.t = "na" -> NA
      [] c.t = "num" -> Date(<<"@">> \o IntText(c.n))
      [] c.t = "str" -> IF IsDateText(c.s) THEN Date(Strip(c.s)) ELSE NA
      [] c.t = "date" -> c

(***************************************************************************)
(* Tables: [columns |-> sequence of names, rows |-> sequence of rows], a   *)
(* row being a sequence of cells, one per column.                          *)
(***************************************************************************)
Table(cs, rs) == [columns |-> cs, rows |-> rs]

HasColumn(t, c) == \E i \in DOMAIN t.columns : t.columns[i] = c

\* the label c selects exactly one column of t
OneColumn(t, c) == Cardinality({i \in DOMAIN t.columns : t.columns[i] = c}) = 1

Idx(t, c) == CHOOSE i \in DOMAIN t.columns : t.columns[i] = c

UniqueColumns(t) ==
    \A i, j \in DOMAIN t.columns : t.columns[i] = t.columns[j] => i = j

\* df[c]: the cells of column c, row by row
Column(t, c) == [r \in DOMAIN t.rows |-> t.rows[r][Idx(t, c)]]

\* df[c] = values: replaces the column c, or appends it when it is new
SetColumn(t, c, values) ==
    IF HasColumn(t, c)
    THEN Table(t.columns,
               [r \in DOMAIN t.rows |->
                   [t.rows[r] EXCEPT ![Idx(t, c)] = values[r]]])
    ELSE Table(Append(t.columns, c),
               [r \in DOMAIN t.rows |-> Append(t.rows[r], values[r])])

\* df[mask]: the rows selected by a predicate, in their order
RECURSIVE SelectIdx(_, _, _)
SelectIdx(rs, keep, i) ==
    IF i > Len(rs) THEN <<>>
    ELSE (IF keep[i] THEN <<rs[i]>> ELSE <<>>) \o SelectIdx(rs, keep, i + 1)

MaskRows(t, keep) == Table(t.columns, SelectIdx(t.rows, keep, 1))


\* DataFrame.drop_duplicates(): a row is dropped when an earlier row has the
\* same cells in the key columns (missing values count as equal)
RowKey(row, keyIdx) == [k \in DOMAIN keyIdx |-> row[keyIdx[k]]]

FirstOccurrence(rs, keyIdx) ==
    [r \in DOMAIN rs |->
        \A q \in 1..(r - 1) : RowKey(rs[q], keyIdx) # RowKey(rs[r], keyIdx)]

DropDuplicatesAdjacent(t, keyIdx) ==
    MaskRows(t, [r \in DOMAIN t.rows |->
                    r = 1 \/ RowKey(t.rows[r - 1], keyIdx) # RowKey(t.rows[r], keyIdx)])

DropDuplicatesKeepNone(t, keyIdx) ==
    MaskRows(t, [r \in DOMAIN t.rows |->
                    \A q \in DOMAIN t.rows :
                        q # r => RowKey(t.rows[q], keyIdx) # RowKey(t.rows[r], keyIdx)])

DropDuplicates(t, keyIdx) == MaskRows(t, FirstOccurrence(t.rows, keyIdx))

AllIdx(t) == [i \in DOMAIN t.columns |-> i]
SubsetIdx(t, subset) == [k \in DOMAIN subset |-> Idx(t, subset[k])]

\* DataFrame.dropna(): the rows without a missing value
DropNa(t) ==
    MaskRows(t, [r \in DOMAIN t.rows |->
                    \A i \in DOMAIN t.rows[r] : ~IsMissing(t.rows[r][i])])

\* DataFrame.fillna(value)
FillNa(t, value) ==
    Table(t.columns,
          [r \in DOMAIN t.rows |->
              [i \in DOMAIN t.rows[r] |->
                  IF IsMissing(t.rows[r][i]) THEN value ELSE t.rows[r][i]]])

\* DataFrame.replace("", pd.NA)
ReplaceEmpty(t) ==
    Table(t.columns,
          [r \in DOMAIN t.rows |->
              [i \in DOMAIN t.rows[r] |->
                  IF t.rows[r][i] = Str(<<>>) THEN NA ELSE t.rows[r][i]]])

\* a rename that pops each renamed column and adds it again at the end
RenameMovesLast(t, mapping) ==
    LET kept == SelectSeq([i \in DOMAIN t.columns |-> i],
                          LAMBDA i : t.columns[i] \notin DOMAIN mapping)
        moved == SelectSeq([i \in DOMAIN t.columns |-> i],
                           LAMBDA i : t.columns[i] \in DOMAIN mapping)
        idx == kept \o moved
    IN  Table([k \in DOMAIN idx |->
                  IF t.columns[idx[k]] \in DOMAIN mapping
                  THEN mapping[t.columns[idx[k]]]
                  ELSE t.columns[idx[k]]],
              [r \in DOMAIN t.rows |-> [k \in DOMAIN idx |-> t.rows[r][idx[k]]]])

\* DataFrame.rename(columns=mapping): mapping is a function from old names
\* to new names
Rename(t, mapping) ==
    Table([i \in DOMAIN t.columns |->
              IF t.columns[i] \in DOMAIN mapping
              THEN mapping[t.columns[i]]
              ELSE t.columns[i]],
          t.rows)

\* df[order]: the listed columns, in the listed order
SelectColumns(t, order) ==
    Table(order,
          [r \in DOMAIN t.rows |->
              [k \in DOMAIN order |-> t.rows[r][Idx(t, order[k])]]])

(***************************************************************************)
(* The scrubber: s = [df, caller, aliased].  df is self.df, caller is the  *)
(* table object handed to the constructor, aliased says that self.df still *)
(* is that object.  A method yields the scrubber after the call together   *)
(* with what the call returned and the exception it raised.                *)
(***************************************************************************)
EmptyTable == Table(<<>>, <<>>)
NoReturn == [kind |-> "none", table |-> EmptyTable]
Returned(t) == [kind |-> "table", table |-> t]
Strings == [kind |-> "strings", table |-> EmptyTable]
PyNone == [t |-> "none", n |-> 0, s |-> <<>>]

\* a file: absent, present but not parseable as CSV, or holding a table
NoFile == [exists |-> FALSE, readable |-> FALSE, table |-> EmptyTable]
Garbled == [exists |-> TRUE, readable |-> FALSE, table |-> EmptyTable]
Csv(t) == [exists |-> TRUE, readable |-> TRUE, table |-> t]

\* no file and no database: the scrubber alone touches neither
NoFiles == <<>>
NoDatabase == [customer |-> {}, product |-> {}, sale |-> {},
               store |-> {}, campaign |-> {}]

\* no script is running
NoScript == [pc |-> "none"]

\* DataScrubber(df)
New(t) == [df |-> t, caller |-> t, aliased |-> TRUE]

\* a statement that changes the object self.df refers to
InPlace(s, t) ==
    [df |-> t, caller |-> IF s.aliased THEN t ELSE s.caller, aliased |-> s.aliased]

\* self.df = <a new table>
Rebind(s, t) == [df |-> t, caller |-> s.caller, aliased |-> FALSE]

\* return self.df
ReturnDf(s) ==
    [df |-> s.df, caller |-> s.caller, aliased |-> s.aliased,
     ret |-> Returned(s.df), raised |-> "none"]

Raise(s, e) ==
    [df |-> s.df, caller |-> s.caller, aliased |-> s.aliased,
     ret |-> NoReturn, raised |-> e]

standardize_column_names(s) ==
    ReturnDf(InPlace(s, Table([i \in DOMAIN s.df.columns |->
                                  camel_to_snake(s.df.columns[i])],
                              s.df.rows)))

standardize_categorical_column(s, column) ==
    IF ~HasColumn(s.df, column) THEN Raise(s, "KeyError")
    ELSE LET old == Column(s.df, column)
             new == [r \in DOMAIN old |-> Str(Title(Strip(AsTypeStr(old[r]).s)))]
         IN ReturnDf(InPlace(s, SetColumn(s.df, column, new)))

\* subset is a sequence of column names; <<>> stands for None and []
remove_duplicate_records(s, subset) ==
    IF subset # <<>>
    THEN IF \E k \in DOMAIN subset : ~HasColumn(s.df, subset[k])
         THEN Raise(s, "KeyError")
         ELSE ReturnDf(Rebind(s, DropDuplicates(s.df, SubsetIdx(s.df, subset))))
    ELSE ReturnDf(Rebind(s, DropDuplicates(s.df, AllIdx(s.df))))

handle_missing_data_truthy(s, drop, fill_value) ==
    IF drop THEN ReturnDf(Rebind(s, DropNa(s.df)))
    ELSE IF fill_value \notin {PyNone, Num(0), Str(<<>>)}
         THEN ReturnDf(Rebind(s, FillNa(s.df, fill_value)))
         ELSE ReturnDf(s)

handle_missing_data_unassigned(s, drop, fill_value) ==
    IF drop
    THEN [ReturnDf(s) EXCEPT !.ret = Returned(DropNa(s.df))]
    ELSE IF fill_value # PyNone
         THEN [ReturnDf(s) EXCEPT !.ret = Returned(FillNa(s.df, fill_value))]
         ELSE ReturnDf(s)

handle_missing_data(s, drop, fill_value) ==
    IF drop THEN ReturnDf(Rebind(s, DropNa(s.df)))
    ELSE IF fill_value # PyNone
         THEN ReturnDf(Rebind(s, FillNa(s.df, fill_value)))
         ELSE ReturnDf(s)

\* format_column_strings without the trailing .str.strip()
format_column_strings_unstripped(s, column, case) ==
    IF ~HasColumn(s.df, column) THEN Raise(s, "ValueError")
    ELSE LET old == Column(s.df, column) IN
         IF case = "lower"
         THEN ReturnDf(InPlace(s, SetColumn(s.df, column,
                  [r \in DOMAIN old |-> Str(Lower(AsTypeStr(old[r]).s))])))
         ELSE IF case = "upper"
         THEN ReturnDf(InPlace(s, SetColumn(s.df, column,
                  [r \in DOMAIN old |-> Str(Upper(AsTypeStr(old[r]).s))])))
         ELSE ReturnDf(s)

format_column_strings(s, column, case) ==
    IF ~HasColumn(s.df, column) THEN Raise(s, "ValueError")
    ELSE LET old == Column(s.df, column) IN
         IF case = "lower"
         THEN ReturnDf(InPlace(s, SetColumn(s.df, column,
                  [r \in DOMAIN old |-> Str(Strip(Lower(AsTypeStr(old[r]).s)))])))
         ELSE IF case = "upper"
         THEN ReturnDf(InPlace(s, SetColumn(s.df, column,
                  [r \in DOMAIN old |-> Str(Strip(Upper(AsTypeStr(old[r]).s)))])))
         ELSE ReturnDf(s)

\* rename_columns with the check made key by key while renaming: the keys
\* before the absent one are renamed when the exception leaves
rename_columns_key_by_key(s, mapping) ==
    IF \E old \in DOMAIN mapping : ~HasColumn(s.df, old)
    THEN Raise(Rebind(s, Rename(s.df,
                 [old \in {k \in DOMAIN mapping : HasColumn(s.df, k)} |-> mapping[old]])),
               "ValueError")
    ELSE ReturnDf(Rebind(s, Rename(s.df, mapping)))

rename_columns(s, mapping) ==
    IF \E old \in DOMAIN mapping : ~HasColumn(s.df, old)
    THEN Raise(s, "ValueError")
    ELSE ReturnDf(Rebind(s, Rename(s.df, mapping)))

reorder_columns(s, order) ==
    IF \E k \in DOMAIN order : ~HasColumn(s.df, order[k])
    THEN Raise(s, "ValueError")
    ELSE ReturnDf(Rebind(s, SelectColumns(s.df, order)))

InBoundsExclusive(c, min_val, max_val) == c.t = "num" /\ c.n > min_val /\ c.n < max_val

\* (df[column] >= min_val) & (df[column] <= max_val) on one coerced cell
InBounds(c, min_val, max_val) == c.t = "num" /\ c.n >= min_val /\ c.n <= max_val

filter_outliers(s, column, min_val, max_val) ==
    IF ~HasColumn(s.df, column) THEN Raise(s, "ValueError")
    ELSE LET old == Column(s.df, column)
             s1 == InPlace(s, SetColumn(s.df, column,
                                        [r \in DOMAIN old |-> ToNumeric(old[r])]))
             num == Column(s1.df, column)
         IN ReturnDf(Rebind(s1, MaskRows(s1.df,
                [r \in DOMAIN num |-> InBounds(num[r], min_val, max_val)])))

\* int(x) on one cell of an object column fails on a missing value and on a
\* text that is no integer
IntFails(c) == c.t \in {"na", "date"} \/ (c.t = "str" /\ ~IsNumericText(c.s))

convert_column_type(s, column, dtype) ==
    IF ~HasColumn(s.df, column) THEN Raise(s, "ValueError")
    ELSE LET old == Column(s.df, column) IN
         IF dtype = "str"
         THEN ReturnDf(InPlace(s, SetColumn(s.df, column,
                  [r \in DOMAIN old |-> AsTypeStr(old[r])])))
         ELSE IF \E r \in DOMAIN old : IntFails(old[r])
         THEN Raise(s, IF \E r \in DOMAIN old : old[r].t = "date"
                       THEN "TypeError" ELSE "ValueError")
         ELSE ReturnDf(InPlace(s, SetColumn(s.df, column,
                  [r \in DOMAIN old |-> ToNumeric(old[r])])))

parse_date_column_append(s, column, new_column) ==
    IF ~HasColumn(s.df, column) THEN Raise(s, "ValueError")
    ELSE LET old == Column(s.df, column) IN
         ReturnDf(InPlace(s,
            Table(Append(s.df.columns, new_column),
                  [r \in DOMAIN old |-> Append(s.df.rows[r], ToDatetime(old[r]))])))

\* a parse that writes the dates over the column it read
parse_date_column_in_place(s, column, new_column) ==
    IF ~HasColumn(s.df, column) THEN Raise(s, "ValueError")
    ELSE LET old == Column(s.df, column) IN
         ReturnDf(InPlace(s, SetColumn(s.df, column,
                  [r \in DOMAIN old |-> ToDatetime(old[r])])))

parse_date_column(s, column, new_column) ==
    IF ~HasColumn(s.df, column) THEN Raise(s, "ValueError")
    ELSE LET old == Column(s.df, column) IN
         ReturnDf(InPlace(s, SetColumn(s.df, new_column,
                  [r \in DOMAIN old |-> ToDatetime(old[r])])))

\* describe() refuses a table without columns
inspect(s) ==
    IF s.df.columns = <<>> THEN Raise(s, "ValueError")
    ELSE [df |-> s.df, caller |-> s.caller, aliased |-> s.aliased,
          ret |-> Strings, raised |-> "none"]

\* the built-in exceptions that are OSError or one of its subclasses
OSErrors == {"OSError", "PermissionError", "FileExistsError", "NotADirectoryError"}

\* what the file system does to a save: nothing, or the step that fails
\* and the exception the library raises there.  Path.mkdir fails with an
\* error of the operating system; DataFrame.to_csv can fail with those and
\* with errors of its own (an encoding error is a ValueError)
SaveOutcomes ==
    {[step |-> "none", exc |-> "none"]}
    \cup {[step |-> "mkdir", exc |-> e] :
             e \in {"PermissionError", "FileExistsError", "NotADirectoryError"}}
    \cup {[step |-> "to_csv", exc |-> e] :
             e \in {"PermissionError", "UnicodeEncodeError", "TypeError"}}

\* save without its try/except: the library's exception leaves as it is
save_unwrapped(s, outcome) ==
    IF outcome.step = "none"
    THEN [df |-> s.df, caller |-> s.caller, aliased |-> s.aliased,
          ret |-> NoReturn, raised |-> "none"]
    ELSE Raise(s, outcome.exc)

\* outcome: what the file system does to mkdir and to_csv
save(s, outcome) ==
    IF outcome.step = "mkdir" THEN Raise(s, outcome.exc)
    ELSE IF outcome.step = "to_csv" THEN Raise(s, "OSError")
    ELSE [df |-> s.df, caller |-> s.caller, aliased |-> s.aliased,
          ret |-> NoReturn, raised |-> "none"]

remove_negative_values(s, column) ==
    IF ~HasColumn(s.df, column) THEN Raise(s, "ValueError")
    ELSE LET old == Column(s.df, column) IN
         IF \E r \in DOMAIN old : old[r].t \in {"str", "date"}
         THEN Raise(s, "TypeError")
         ELSE ReturnDf(Rebind(s, MaskRows(s.df,
                [r \in DOMAIN old |-> old[r].t = "num" /\ old[r].n >= 0])))

convert_empty_strings_to_na(s) == ReturnDf(Rebind(s, ReplaceEmpty(s.df)))

\* an override that looks for missing values only, without parsing
override_invalid_dates_missing_only(s, column, fixed_date) ==
    IF ~HasColumn(s.df, column) THEN Raise(s, "KeyError")
    ELSE LET old == Column(s.df, column) IN
         IF \E r \in DOMAIN old : IsMissing(old[r])
         THEN ReturnDf(InPlace(s, SetColumn(s.df, column,
                 [r \in DOMAIN old |->
                     IF IsMissing(old[r]) THEN Str(fixed_date) ELSE old[r]])))
         ELSE ReturnDf(s)

override_invalid_dates(s, column, fixed_date) ==
    IF ~HasColumn(s.df, column) THEN Raise(s, "KeyError")
    ELSE LET old == Column(s.df, column)
             invalid == [r \in DOMAIN old |-> IsMissing(ToDatetime(old[r]))]
         IN IF \E r \in DOMAIN old : invalid[r]
            THEN ReturnDf(InPlace(s, SetColumn(s.df, column,
                    [r \in DOMAIN old |->
                        IF invalid[r] THEN Str(fixed_date) ELSE old[r]])))
            ELSE ReturnDf(s)

sale_amount == <<"s","a","l","e","_","a","m","o","u","n","t">>
discount_percent ==
    <<"d","i","s","c","o","u","n","t","_","p","e","r","c","e","n","t">>

correct_zero_sales_discount(s) ==
    IF ~HasColumn(s.df, sale_amount) THEN Raise(s, "KeyError")
    ELSE LET amt == Column(s.df, sale_amount)
             s1 == InPlace(s, SetColumn(s.df, sale_amount,
                                        [r \in DOMAIN amt |-> ToNumeric(amt[r])]))
         IN IF ~HasColumn(s1.df, discount_percent) THEN Raise(s1, "KeyError")
            ELSE LET dis == Column(s1.df, discount_percent)
                     s2 == InPlace(s1, SetColumn(s1.df, discount_percent,
                                [r \in DOMAIN dis |-> ToNumeric(dis[r])]))
                     a2 == Column(s2.df, sale_amount)
                     d2 == Column(s2.df, discount_percent)
                     condition ==
                         [r \in DOMAIN a2 |->
                             /\ a2[r] = Num(0)
                             /\ (IsMissing(d2[r]) \/ d2[r].n < 100)]
                 IN ReturnDf(InPlace(s2, SetColumn(s2.df, discount_percent,
                        [r \in DOMAIN d2 |->
                            IF condition[r] THEN Num(100) ELSE d2[r]])))


(***************************************************************************)
(* The inputs: the tables a scrubber is constructed with and the arguments *)
(* its methods are called with.                                            *)
(***************************************************************************)
Absent == <<"N","o","n","e","x","i","s","t","e","n","t">>
parsed_date == <<"p","a","r","s","e","d","_","d","a","t","e">>
FullName == <<"F","u","l","l","N","a","m","e">>
DefaultFixedDate == <<"2","0","2","5","-","0","5","-","0","4">>

Headers ==
    { << <<"C","u","s","t"," ","N","a","m","e">>, <<"c","u","s","t","I","D">> >>,
      << <<"N","a","m","e">>, <<"n","a","m","e"," ">> >>,
      << sale_amount, discount_percent >> }

RowPool ==
    { << Str(<<" ","A">>), Num(5) >>,
      << Str(<<"a">>), Num(5) >>,
      << NA, Num(0) >>,
      << Str(<<"U">>), Num(0) >>,
      << Num(0), Str(<<"7">>) >>,
      << Str(<<>>), Num(0 - 1) >>,
      << Str(<<"x">>), NA >> }

RECURSIVE SeqsUpTo(_, _)
SeqsUpTo(S, k) ==
    IF k = 0 THEN {<<>>}
    ELSE LET shorter == SeqsUpTo(S, k - 1) IN
         shorter \cup {Append(q, x) : q \in {y \in shorter : Len(y) = k - 1}, x \in S}

\* every table of at most MaxRows rows of the pool, under every header
InitialTables == {Table(h, rs) : h \in Headers, rs \in SeqsUpTo(RowPool, MaxRows)}

\* tables with a column of dates: the texts are ISO dates, a text that is
\* no date and a missing value; the second column is either an unrelated
\* one or already carries the default name of the parsed column
date == <<"d","a","t","e">>
Age == <<"A","g","e">>

DateHeaders == { <<date, Age>>, <<date, parsed_date>> }

DateRowPool ==
    { << Str(DefaultFixedDate), Num(5) >>,
      << Str(<<"2","0","2","3","-","0","1","-","0","1">>), Num(0) >>,
      << Str(<<"x">>), Num(0) >>,
      << NA, Str(<<"7">>) >> }

DateTables == {Table(h, rs) : h \in DateHeaders, rs \in SeqsUpTo(DateRowPool, MaxRows)}

\* the tables the call sequences start from
SampleRows ==
    { << << Str(<<" ","A">>), Num(5) >>, << NA, Num(0) >>, << Str(<<"a">>), Num(5) >> >>,
      << << NA, Num(0) >>, << Str(<<"U">>), Num(0) >>, << NA, Num(0) >> >>,
      << << Num(0), Str(<<"7">>) >>, << Str(<<>>), Num(0 - 1) >>, << Str(<<"x">>), NA >> >> }

SampleTables == {Table(h, rs) : h \in Headers, rs \in SampleRows}

\* a column argument: a label of exactly one column, or a name the table lacks
ColumnArgs == {c \in Range(df.columns) : OneColumn(df, c)} \cup {Absent}

FillValues == {PyNone, Num(0), Str(<<>>), Str(<<"U">>)}
Cases == {"lower", "upper", "title"}
OutlierBounds == {<<0, 5>>, <<1, 9>>}
Dtypes == {"str", "int"}

Self == [df |-> df, caller |-> caller, aliased |-> aliased]

Constructed(t, n) ==
    /\ df = t
    /\ caller = t
    /\ aliased = TRUE
    /\ ret = NoReturn
    /\ raised = "none"
    /\ lastOp = [op |-> "__init__", args |-> <<>>]
    /\ pre = t
    /\ left = n
    /\ files = NoFiles
    /\ disk = NoDatabase
    /\ log = <<>>
    /\ run = NoScript

\* a scrubber on a sample table, about to receive up to MaxSteps calls
Init == \E t \in SampleTables : Constructed(t, MaxSteps)

\* a scrubber on any table of the pool, about to receive one call
InitOneCall == \E t \in InitialTables : Constructed(t, 1)

\* a scrubber on a table of dates, about to receive one call
InitDates == \E t \in DateTables : Constructed(t, 1)

\* one call: the scrubber becomes r, the call and the table before it are
\* remembered
Call(op, args, r) ==
    /\ left > 0
    /\ df' = r.df
    /\ caller' = r.caller
    /\ aliased' = r.aliased
    /\ ret' = r.ret
    /\ raised' = r.raised
    /\ lastOp' = [op |-> op, args |-> args]
    /\ pre' = df
    /\ left' = left - 1
    /\ UNCHANGED <<files, disk, log, run>>

Call_standardize_column_names ==
    Call("standardize_column_names", <<>>, standardize_column_names(Self))

Call_standardize_categorical_column ==
    \E c \in ColumnArgs :
        Call("standardize_categorical_column", <<c>>,
             standardize_categorical_column(Self, c))

Call_remove_duplicate_records ==
    \E subset \in {<<>>} \cup {<<c>> : c \in ColumnArgs} :
        Call("remove_duplicate_records", <<subset>>,
             remove_duplicate_records(Self, subset))

Call_handle_missing_data ==
    \E drop \in BOOLEAN, fill \in FillValues :
        /\ drop => fill \in {PyNone, Str(<<"U">>)}
        /\ Call("handle_missing_data", <<drop, fill>>,
                handle_missing_data(Self, drop, fill))

Call_format_column_strings ==
    \E c \in ColumnArgs, case \in Cases :
        /\ c = Absent => case = "lower"
        /\ Call("format_column_strings", <<c, case>>,
                format_column_strings(Self, c, case))

\* mappings: one column renamed to a new name, one renamed to the name of
\* another column, and one with an absent key beside an existing one
Mappings ==
    LET present == ColumnArgs \ {Absent} IN
    {[k \in {c} |-> FullName] : c \in present}
    \cup {[k \in {p[1]} |-> p[2]] : p \in {q \in present \X present : q[1] # q[2]}}
    \cup {[k \in {c, Absent} |-> FullName] : c \in present}

Call_rename_columns ==
    \E mapping \in Mappings :
        Call("rename_columns", <<mapping>>, rename_columns(Self, mapping))

RECURSIVE Reverse(_)
Reverse(q) == IF q = <<>> THEN <<>> ELSE Append(Reverse(Tail(q)), Head(q))

\* orders: all columns reversed, one column alone, one column twice, and
\* one column with an absent name
Orders ==
    LET present == ColumnArgs \ {Absent} IN
    (IF UniqueColumns(df) THEN {Reverse(df.columns)} ELSE {})
    \cup {<<c>> : c \in present}
    \cup {<<c, c>> : c \in present}
    \cup {<<c, Absent>> : c \in present}

Call_reorder_columns ==
    \E order \in Orders :
        Call("reorder_columns", <<order>>, reorder_columns(Self, order))

Call_filter_outliers ==
    \E c \in ColumnArgs, b \in OutlierBounds :
        /\ c = Absent => b = <<0, 5>>
        /\ Call("filter_outliers", <<c, b[1], b[2]>>,
                filter_outliers(Self, c, b[1], b[2]))

Call_convert_column_type ==
    \E c \in ColumnArgs, dtype \in Dtypes :
        /\ c = Absent => dtype = "str"
        /\ Call("convert_column_type", <<c, dtype>>,
                convert_column_type(Self, c, dtype))

Call_parse_date_column ==
    \E c \in ColumnArgs, new \in (ColumnArgs \ {Absent}) \cup {parsed_date} :
        /\ c = Absent => new = parsed_date
        /\ Call("parse_date_column", <<c, new>>, parse_date_column(Self, c, new))

Call_inspect == Call("inspect", <<>>, inspect(Self))

Call_save ==
    \E outcome \in SaveOutcomes :
        Call("save", <<outcome>>, save(Self, outcome))

Call_remove_negative_values ==
    \E c \in ColumnArgs :
        Call("remove_negative_values", <<c>>, remove_negative_values(Self, c))

Call_convert_empty_strings_to_na ==
    Call("convert_empty_strings_to_na", <<>>, convert_empty_strings_to_na(Self))

\* the default of fixed_date, and a text that is no date
FixedDates == {DefaultFixedDate, <<"x">>}

Call_override_invalid_dates ==
    \E c \in ColumnArgs, fixed_date \in FixedDates :
        /\ c = Absent => fixed_date = DefaultFixedDate
        /\ Call("override_invalid_dates", <<c, fixed_date>>,
                override_invalid_dates(Self, c, fixed_date))

Call_correct_zero_sales_discount ==
    Call("correct_zero_sales_discount", <<>>, correct_zero_sales_discount(Self))

Next ==
    \/ Call_standardize_column_names
    \/ Call_standardize_categorical_column
    \/ Call_remove_duplicate_records
    \/ Call_handle_missing_data
    \/ Call_format_column_strings
    \/ Call_rename_columns
    \/ Call_reorder_columns
    \/ Call_filter_outliers
    \/ Call_convert_column_type
    \/ Call_parse_date_column
    \/ Call_inspect
    \/ Call_save
    \/ Call_remove_negative_values
    \/ Call_convert_empty_strings_to_na
    \/ Call_override_invalid_dates
    \/ Call_correct_zero_sales_discount

Spec == Init /\ [][Next]_vars

SpecOneCall == InitOneCall /\ [][Next]_vars

SpecDates == InitDates /\ [][Next]_vars

\* tables of sales: amounts that are 0, another amount, a text and a
\* missing one, beside discounts inside 0..100, below 0, above 100, a text
\* and a missing one
SalesDiscountRowPool ==
    { << Num(0), Num(150) >>,
      << Num(0), NA >>,
      << Num(0), Str(<<"x">>) >>,
      << Num(0), Num(0 - 5) >>,
      << Num(0), Num(50) >>,
      << Num(10), Num(20) >>,
      << Str(<<"x">>), Str(<<"7">>) >> }

SalesDiscountTables ==
    {Table(<<sale_amount, discount_percent>>, rs) :
        rs \in SeqsUpTo(SalesDiscountRowPool, MaxRows)}

\* a scrubber on a table of sales, about to receive one call
InitSales == \E t \in SalesDiscountTables : Constructed(t, 1)

SpecSales == InitSales /\ [][Next]_vars


(***************************************************************************)
(* The warehouse loader, etl_to_dw.load_data_to_db.  The database is the   *)
(* set of rows of each of its five tables, a row being the sequence of its *)
(* cells in the order of the schema; disk is what is committed.            *)
(***************************************************************************)
customer_id == <<"c","u","s","t","o","m","e","r","_","i","d">>
region == <<"r","e","g","i","o","n">>
join_date == <<"j","o","i","n","_","d","a","t","e">>
loyalty_points == <<"l","o","y","a","l","t","y","_","p","o","i","n","t","s">>
engagement_style == <<"e","n","g","a","g","e","m","e","n","t","_","s","t","y","l","e">>
product_id == <<"p","r","o","d","u","c","t","_","i","d">>
product_name == <<"p","r","o","d","u","c","t","_","n","a","m","e">>
category == <<"c","a","t","e","g","o","r","y">>
unit_price == <<"u","n","i","t","_","p","r","i","c","e">>
sale_id == <<"s","a","l","e","_","i","d">>
transaction_id == <<"t","r","a","n","s","a","c","t","i","o","n","_","i","d">>
store_id == <<"s","t","o","r","e","_","i","d">>
campaign_id == <<"c","a","m","p","a","i","g","n","_","i","d">>
sale_date == <<"s","a","l","e","_","d","a","t","e">>

customer_columns == <<customer_id, region, join_date, loyalty_points, engagement_style>>
product_columns == <<product_id, product_name, category, unit_price>>
sale_columns == <<sale_id, customer_id, product_id, store_id, campaign_id,
                  sale_amount, sale_date, discount_percent>>

CustomersPrepared == "data/prepared/customers_prepared.csv"
ProductsPrepared == "data/prepared/products_prepared.csv"
SalesDataPrepared == "data/prepared/sales_data_prepared.csv"

\* insert_mock_stores, insert_mock_campaigns
MockStores ==
    { <<Num(401), Str(<<"L","o","s"," ","A","n","g","e","l","e","s"," ","P","l","a","z","a">>), Str(<<"W","e","s","t">>)>>,
      <<Num(402), Str(<<"P","h","o","e","n","i","x"," ","O","u","t","f","i","t","t","e","r","s">>), Str(<<"S","o","u","t","h","-","W","e","s","t">>)>>,
      <<Num(403), Str(<<"D","o","w","n","t","o","w","n"," ","S","e","a","t","t","l","e">>), Str(<<"N","o","r","t","h">>)>>,
      <<Num(404), Str(<<"N","e","w"," ","Y","o","r","k"," ","U","p","t","o","w","n">>), Str(<<"E","a","s","t">>)>> }

MockCampaigns ==
    { <<Num(0), Str(<<"S","u","m","m","e","r"," ","S","a","l","e">>), Str(<<"2","0","2","5","-","0","6","-","0","1">>), Str(<<"2","0","2","5","-","0","7","-","3","1">>)>>,
      <<Num(1), Str(<<"H","o","l","i","d","a","y"," ","P","r","o","m","o">>), Str(<<"2","0","2","5","-","1","1","-","0","1">>), Str(<<"2","0","2","5","-","1","2","-","3","1">>)>>,
      <<Num(2), Str(<<"B","a","c","k"," ","t","o"," ","S","c","h","o","o","l">>), Str(<<"2","0","2","5","-","0","8","-","0","1">>), Str(<<"2","0","2","5","-","0","9","-","1","5">>)>>,
      <<Num(3), Str(<<"N","e","W"," ","Y","e","a","r"," ","K","i","c","k","o","f","f">>), Str(<<"2","0","2","5","-","0","1","-","0","1">>), Str(<<"2","0","2","5","-","0","1","-","3","1">>)>> }

\* 2025-01-01 plus randint(0, 365) days: the first and the last of the
\* dates that can be drawn
RandomSaleDates == { <<"2","0","2","5","-","0","1","-","0","1">>, <<"2","0","2","5","-","1","2","-","3","1">> }

HasAll(t, names) == \A k \in DOMAIN names : HasColumn(t, names[k])

\* INTEGER PRIMARY KEY on the first column: two rows of one insert with
\* the same key
PrimaryKeyRepeats(t) ==
    \E r, q \in DOMAIN t.rows : r # q /\ t.rows[r][1] = t.rows[q][1]

\* drop_duplicates(subset="sale_id", keep="last")
DistinctSalesKeepLast(t) ==
    LET renamed == Rename(t, [k \in {transaction_id} |-> sale_id])
        key == Idx(renamed, sale_id)
    IN  MaskRows(renamed,
                 [r \in DOMAIN renamed.rows |->
                     \A q \in DOMAIN renamed.rows :
                         q > r => renamed.rows[q][key] # renamed.rows[r][key]])

\* sales_df after the rename of transaction_id and drop_duplicates on
\* sale_id (read only when the column sale_id is there)
DistinctSales(t) ==
    LET renamed == Rename(t, [k \in {transaction_id} |-> sale_id]) IN
    DropDuplicates(renamed, <<Idx(renamed, sale_id)>>)

LoadResult(d, e) == [disk |-> d, raised |-> e]

\* the database after create_schema, delete_existing_records and the two
\* inserts of reference rows
Refreshed == [NoDatabase EXCEPT !.store = MockStores, !.campaign = MockCampaigns]

\* load_data_to_db on the committed database db and the files fs.
\* connect: whether sqlite3.connect succeeds; dates: the random sale_date
\* of each sales row.  Everything before insert_customers runs in one
\* open transaction; DataFrame.to_sql commits when its insert succeeds and
\* rolls the open transaction back when it fails; close() without commit
\* discards what is open.  No statement turns foreign-key enforcement on,
\* so SQLite accepts any value in the four reference columns of sale.
\* When connect fails, conn is unbound in the finally clause.
load_data_to_db(db, fs, connect, dates) ==
    IF connect # "ok" THEN LoadResult(db, "UnboundLocalError")
    ELSE LET c == fs[CustomersPrepared]
             p == fs[ProductsPrepared]
             s == fs[SalesDataPrepared]
         IN
         IF ~c.exists THEN LoadResult(db, "FileNotFoundError")
         ELSE IF ~c.readable THEN LoadResult(db, "ParserError")
         ELSE IF ~HasColumn(c.table, customer_id) THEN LoadResult(db, "KeyError")
         ELSE IF ~p.exists THEN LoadResult(db, "FileNotFoundError")
         ELSE IF ~p.readable THEN LoadResult(db, "ParserError")
         ELSE IF ~s.exists THEN LoadResult(db, "FileNotFoundError")
         ELSE IF ~s.readable THEN LoadResult(db, "ParserError")
         ELSE IF ~HasColumn(s.table, sale_id) /\ ~HasColumn(s.table, transaction_id)
              THEN LoadResult(db, "KeyError")
         ELSE LET distinct == DistinctSales(s.table)
                  dated == SetColumn(distinct, sale_date,
                               [r \in DOMAIN distinct.rows |-> Str(dates[r])])
              IN
              IF \/ ~HasAll(dated, sale_columns)
                 \/ ~HasAll(p.table, product_columns)
                 \/ ~HasAll(c.table, customer_columns)
              THEN LoadResult(db, "KeyError")
              ELSE LET sales == SelectColumns(dated, sale_columns)
                       products == SelectColumns(p.table, product_columns)
                       customers == SelectColumns(c.table, customer_columns)
                       withCustomers ==
                           [Refreshed EXCEPT !.customer = Range(customers.rows)]
                       withProducts ==
                           [withCustomers EXCEPT !.product = Range(products.rows)]
                   IN
                   IF PrimaryKeyRepeats(customers)
                   THEN LoadResult(db, "IntegrityError")
                   ELSE IF PrimaryKeyRepeats(products)
                   THEN LoadResult(withCustomers, "IntegrityError")
                   ELSE LoadResult([withProducts EXCEPT !.sale = Range(sales.rows)],
                                   "none")

(***************************************************************************)
(* Prepared files the loader is run on, and the runs.                      *)
(***************************************************************************)
East == <<"E","a","s","t">>
West == <<"W","e","s","t">>
Mobile == <<"M","o","b","i","l","e">>
InStore == <<"I","n","S","t","o","r","e">>
Widget == <<"W","i","d","g","e","t">>
Tools == <<"T","o","o","l","s">>
AnyDate == <<"2","0","2","4","-","0","3","-","0","9">>

CustomerRow(id, where) ==
    <<Num(id), Str(where), Str(AnyDate), Num(10 * id), Str(Mobile)>>
ProductRow(id) == <<Num(id), Str(Widget), Str(Tools), Num(id - 100)>>

\* a row of the prepared sales file, under PreparedSalesHeader
SaleRow(id, customer, product, store, campaign) ==
    <<Num(id), Str(AnyDate), Num(customer), Num(product), Num(store),
      Num(campaign), Num(50), Num(0)>>

PreparedSalesHeader ==
    <<transaction_id, sale_date, customer_id, product_id, store_id,
      campaign_id, sale_amount, discount_percent>>

\* one customer, two customers, two rows with one key, a file under the
\* names of the raw file, no file, a file that is not CSV
CustomersFiles ==
    { Csv(Table(customer_columns, <<CustomerRow(1, East)>>)),
      Csv(Table(customer_columns, <<CustomerRow(1, East), CustomerRow(2, West)>>)),
      Csv(Table(customer_columns, <<CustomerRow(1, East), CustomerRow(1, West)>>)),
      Csv(Table(<<<<"C","u","s","t","o","m","e","r","I","D">>, <<"R","e","g","i","o","n">>, <<"J","o","i","n","D","a","t","e">>, <<"L","o","y","a","l","t","y","P","o","i","n","t","s">>,
                  <<"E","n","g","a","g","e","m","e","n","t","S","t","y","l","e">>>>, <<CustomerRow(1, East)>>)),
      NoFile, Garbled }

ProductsFiles ==
    { Csv(Table(product_columns, <<ProductRow(101)>>)),
      Csv(Table(product_columns, <<ProductRow(101), ProductRow(102)>>)),
      Csv(Table(product_columns, <<ProductRow(101), ProductRow(101)>>)),
      NoFile }

\* sales whose references are among customers 1 and 2, products 101 and
\* 102, the four stores and the four campaigns; sales that repeat a key;
\* sales that refer to customer 9, product 199, store 499 or campaign 7
SalesRows ==
    { <<>>,
      <<SaleRow(1, 1, 101, 401, 0)>>,
      <<SaleRow(1, 1, 101, 401, 0), SaleRow(2, 2, 102, 404, 3)>>,
      <<SaleRow(1, 1, 101, 401, 0), SaleRow(1, 2, 102, 402, 1)>>,
      <<SaleRow(1, 1, 101, 401, 0), SaleRow(3, 9, 101, 401, 0)>>,
      <<SaleRow(4, 1, 199, 403, 2)>>,
      <<SaleRow(5, 1, 101, 499, 0)>>,
      <<SaleRow(6, 1, 101, 401, 7)>> }

SalesFiles ==
    {Csv(Table(PreparedSalesHeader, rs)) : rs \in SalesRows}
    \cup { Csv(Table(sale_columns, <<>>)),
           Csv(Table(SubSeq(PreparedSalesHeader, 1, 7), <<>>)),
           NoFile }

PreparedFiles ==
    {[path \in {CustomersPrepared, ProductsPrepared, SalesDataPrepared} |->
         CASE path = CustomersPrepared -> c
           [] path = ProductsPrepared -> p
           [] path = SalesDataPrepared -> s] :
      c \in CustomersFiles, p \in ProductsFiles, s \in SalesFiles}

\* what the warehouse holds before the first run: nothing, or rows of an
\* earlier load
EarlierLoads ==
    { NoDatabase,
      [Refreshed EXCEPT !.customer = {CustomerRow(7, East)},
                        !.product = {ProductRow(107)}] }

\* the prepared files, the warehouse, and a driver about to run the
\* loader up to MaxLoads times
InitLoad ==
    /\ files \in PreparedFiles
    /\ disk \in EarlierLoads
    /\ left = MaxLoads
    /\ df = EmptyTable
    /\ caller = EmptyTable
    /\ aliased = TRUE
    /\ pre = disk
    /\ ret = NoReturn
    /\ raised = "none"
    /\ lastOp = [op |-> "__init__", args |-> <<>>]
    /\ log = <<>>
    /\ run = NoScript

\* the number of sales rows that receive a random date
DatedRows(fs) ==
    LET s == fs[SalesDataPrepared] IN
    IF s.exists /\ s.readable
       /\ (HasColumn(s.table, sale_id) \/ HasColumn(s.table, transaction_id))
    THEN Len(DistinctSales(s.table).rows)
    ELSE 0

\* one run of the loader: pre is the warehouse before the run
Call_load_data_to_db ==
    \E connect \in {"ok", "fails"} :
    \E dates \in [1..DatedRows(files) -> RandomSaleDates] :
        LET r == load_data_to_db(disk, files, connect, dates) IN
        /\ left > 0
        /\ disk' = r.disk
        /\ raised' = r.raised
        /\ ret' = NoReturn
        /\ lastOp' = [op |-> "load_data_to_db", args |-> <<connect, dates>>]
        /\ pre' = disk
        /\ left' = left - 1
        /\ UNCHANGED <<df, caller, aliased, files, log, run>>

NextLoad == Call_load_data_to_db

SpecLoad == InitLoad /\ [][NextLoad]_vars

(***************************************************************************)
(* scripts/demo_scrubber.py: main and the loop of process_datasets over    *)
(* the three raw files.  run.status is what became of each dataset.        *)
(***************************************************************************)
DemoDatasets == <<"customers", "products", "sales">>

RawPath(name) ==
    CASE name = "customers" -> "data/raw/customers_data.csv"
      [] name = "products" -> "data/raw/products_data.csv"
      [] name = "sales" -> "data/raw/sales_data.csv"

CleanedPath(name) ==
    CASE name = "customers" -> "data/cleaned/customers_cleaned.csv"
      [] name = "products" -> "data/cleaned/products_cleaned.csv"
      [] name = "sales" -> "data/cleaned/sales_cleaned.csv"

Unknown == <<"U","n","k","n","o","w","n">>

\* the scrubber a call left behind
Scrubber(r) == [df |-> r.df, caller |-> r.caller, aliased |-> r.aliased]

\* the next statement of a block: skipped when an exception is on its way
Then(r, Op(_)) == IF r.raised # "none" THEN r ELSE Op(Scrubber(r))

\* the file at the path of a save of table t: to_csv opens the file for
\* writing and then writes it; a refusal to open (PermissionError) leaves
\* the path as it was, a failure while writing leaves an incomplete file
Written(old, t, outcome) ==
    CASE outcome.step = "none" -> Csv(t)
      [] outcome.step = "mkdir" -> old
      [] outcome.step = "to_csv" ->
            IF outcome.exc = "PermissionError" THEN old ELSE Garbled

\* the try block of one dataset
DemoScrub(t, outcome) ==
    LET named == standardize_column_names(New(t))
        filled == Then(named, LAMBDA s : handle_missing_data(s, FALSE, Str(Unknown)))
        distinct == Then(filled, LAMBDA s : remove_duplicate_records(s, <<>>))
        inspected == Then(distinct, LAMBDA s : inspect(s))
    IN  Then(inspected, LAMBDA s : save(s, outcome))

\* what became of a dataset whose raw file is f
DemoStatus(f, outcome) ==
    IF ~f.exists THEN "missing"
    ELSE IF ~f.readable THEN "read_csv"
    ELSE IF DemoScrub(f.table, outcome).raised = "none" THEN "saved"
    ELSE IF outcome.step = "none" THEN "scrub"
    ELSE outcome.step

\* a loop that stops at the first dataset that fails
StopAtFailure(todo, status) ==
    IF status \in {"saved", "missing"} THEN Tail(todo) ELSE <<>>

\* continue: the loop goes on with the next dataset whatever happened
NextDatasets(todo, status) == Tail(todo)

DemoRunning(todo) ==
    [pc |-> "loop", setup |-> "ok", todo |-> todo, visited |-> <<>>,
     status |-> [n \in Range(DemoDatasets) |-> "pending"], exit |-> 0 - 1]

\* main up to the loop: the directory data/cleaned is made and DataScrubber
\* imported; either can fail, and main then returns 1
demo_main_start ==
    \E setup \in {"ok", "mkdir fails", "import fails"} :
        /\ run.pc = "start"
        /\ run' = IF setup = "ok"
                  THEN DemoRunning(DemoDatasets)
                  ELSE [DemoRunning(<<>>) EXCEPT !.pc = "done", !.setup = setup,
                                                 !.exit = 1]
        /\ log' = IF setup = "ok" THEN <<"INFO">>
                  ELSE IF setup = "import fails" THEN <<"INFO", "ERROR", "ERROR">>
                  ELSE <<"INFO", "ERROR">>
        /\ lastOp' = [op |-> "demo_scrubber.main", args |-> <<setup>>]
        /\ UNCHANGED <<df, caller, aliased, ret, raised, pre, left, files, disk>>

\* one round of the loop of process_datasets
demo_process_dataset ==
    /\ run.pc = "loop"
    /\ run.todo # <<>>
    /\ LET name == Head(run.todo)
           f == files[RawPath(name)]
       IN  \E outcome \in IF f.exists /\ f.readable THEN SaveOutcomes
                          ELSE {[step |-> "none", exc |-> "none"]} :
           LET status == DemoStatus(f, outcome)
               r == DemoScrub(f.table, outcome)
           IN
           /\ files' = IF status \in {"missing", "read_csv", "scrub"} THEN files
                       ELSE [files EXCEPT ![CleanedPath(name)] =
                                Written(files[CleanedPath(name)], r.df, outcome)]
           /\ run' = [run EXCEPT !.todo = NextDatasets(run.todo, status),
                                 !.visited = Append(run.visited, name),
                                 !.status[name] = status]
           /\ log' = CASE status = "missing" -> <<"INFO", "WARNING">>
                       [] status = "read_csv" -> <<"INFO", "ERROR">>
                       [] status = "scrub" -> <<"INFO", "ERROR">>
                       [] status = "saved" -> <<"INFO", "INFO", "INFO">>
                       [] OTHER -> <<"INFO", "INFO", "ERROR">>
           /\ lastOp' = [op |-> "process_datasets", args |-> <<name, outcome>>]
    /\ UNCHANGED <<df, caller, aliased, ret, raised, pre, left, disk>>

\* process_datasets has returned: main returns 0
demo_main_return ==
    /\ run.pc = "loop"
    /\ run.todo = <<>>
    /\ run' = [run EXCEPT !.pc = "done", !.exit = 0]
    /\ log' = <<"INFO">>
    /\ lastOp' = [op |-> "demo_scrubber.main", args |-> <<"return">>]
    /\ UNCHANGED <<df, caller, aliased, ret, raised, pre, left, files, disk>>

\* raw files: absent, not parseable, or one of three tables
DemoTables ==
    {Table(<< <<"C","u","s","t","N","a","m","e">>, <<"c","u","s","t","I","D">> >>, rs) : rs \in SampleRows}

RawFiles == {NoFile, Garbled} \cup {Csv(t) : t \in DemoTables}

\* what an earlier run left at the cleaned paths
StaleTable == Table(<< <<"o","l","d">> >>, << <<Num(1)>> >>)

DemoFiles ==
    {[path \in {RawPath(n) : n \in Range(DemoDatasets)}
                 \cup {CleanedPath(n) : n \in Range(DemoDatasets)} |->
         CASE path = RawPath("customers") -> c
           [] path = RawPath("products") -> p
           [] path = RawPath("sales") -> s
           [] OTHER -> old] :
      c \in RawFiles, p \in RawFiles, s \in RawFiles,
      old \in {NoFile, Csv(StaleTable)}}

\* demo_scrubber.py is started; pre is the files it finds
InitDemo ==
    /\ files \in DemoFiles
    /\ pre = files
    /\ run = [DemoRunning(<<>>) EXCEPT !.pc = "start"]
    /\ log = <<>>
    /\ disk = NoDatabase
    /\ left = 0
    /\ df = EmptyTable
    /\ caller = EmptyTable
    /\ aliased = TRUE
    /\ ret = NoReturn
    /\ raised = "none"
    /\ lastOp = [op |-> "__init__", args |-> <<>>]

NextDemo ==
    \/ demo_main_start
    \/ demo_process_dataset
    \/ demo_main_return

SpecDemo == InitDemo /\ [][NextDemo]_vars

(***************************************************************************)
(* scripts/run_cleaning.py: clean_customers with its default paths.        *)
(***************************************************************************)
CustomersRaw == "data/raw/customers.csv"
CustomersCleaned == "data/cleaned/customers_cleaned.csv"

cust_id == <<"c","u","s","t","_","i","d">>
cust_name == <<"c","u","s","t","_","n","a","m","e">>
customer_name == <<"c","u","s","t","o","m","e","r","_","n","a","m","e">>
NotAvailable == <<"N","/","A">>

\* the statements between the import and the inspection: no try around them
CleanScrub(t) ==
    LET named == standardize_column_names(New(t))
        distinct == Then(named, LAMBDA s : remove_duplicate_records(s, <<>>))
        filled == Then(distinct,
                       LAMBDA s : handle_missing_data(s, FALSE, Str(NotAvailable)))
        renamed == Then(filled,
                        LAMBDA s : rename_columns(s,
                            [k \in {cust_id, cust_name} |->
                                IF k = cust_id THEN customer_id ELSE customer_name]))
    IN  Then(renamed, LAMBDA s : format_column_strings(s, customer_name, "lower"))

\* what to_csv does to the write at the end of clean_customers
WriteOutcomes == {o \in SaveOutcomes : o.step # "mkdir"}

CleanResult(code, e, fs, levels) ==
    [exit |-> code, raised |-> e, files |-> fs, log |-> levels]

\* clean_customers() on the files fs.  setup: whether the mkdir of
\* data/cleaned and the import of DataScrubber succeed; outcome: what
\* to_csv does.  An exit code of -1 stands for no return at all.
clean_customers(fs, setup, outcome) ==
    LET raw == fs[CustomersRaw] IN
    IF setup = "mkdir fails"
    THEN CleanResult(0 - 1, "PermissionError", fs, <<>>)
    ELSE IF ~raw.exists THEN CleanResult(1, "none", fs, <<"INFO", "ERROR">>)
    ELSE IF ~raw.readable THEN CleanResult(1, "none", fs, <<"INFO", "ERROR">>)
    ELSE IF setup = "import fails"
    THEN CleanResult(1, "none", fs, <<"INFO", "ERROR">>)
    ELSE LET cleaned == CleanScrub(raw.table) IN
         IF cleaned.raised # "none"
         THEN CleanResult(0 - 1, cleaned.raised, fs, <<"INFO">>)
         ELSE LET inspected == inspect(Scrubber(cleaned))
                  seen == IF inspected.raised = "none" THEN "INFO" ELSE "DEBUG"
                  written == [fs EXCEPT ![CustomersCleaned] =
                                 Written(fs[CustomersCleaned], cleaned.df, outcome)]
              IN  IF outcome.step = "none"
                  THEN CleanResult(0, "none", written,
                                   <<"INFO", seen, "INFO", "INFO">>)
                  ELSE CleanResult(1, "none", written,
                                   <<"INFO", seen, "INFO", "ERROR">>)

\* run_cleaning.py is run once
Call_clean_customers ==
    \E setup \in {"ok", "mkdir fails", "import fails"}, outcome \in WriteOutcomes :
        LET r == clean_customers(files, setup, outcome) IN
        /\ left > 0
        \* the outcome of to_csv is drawn only when to_csv is reached
        /\ (outcome.step # "none") =>
               /\ setup = "ok"
               /\ files[CustomersRaw].exists /\ files[CustomersRaw].readable
               /\ CleanScrub(files[CustomersRaw].table).raised = "none"
        /\ files' = r.files
        /\ raised' = r.raised
        /\ log' = r.log
        /\ run' = [pc |-> IF r.raised = "none" THEN "done" ELSE "raised",
                   exit |-> r.exit]
        /\ lastOp' = [op |-> "clean_customers", args |-> <<setup, outcome>>]
        /\ pre' = files
        /\ left' = left - 1
        /\ UNCHANGED <<df, caller, aliased, ret, disk>>

\* customers files whose names become cust_id and cust_name, and files
\* under other names, among them the names of the repository's raw file
CleanHeaders ==
    { << <<"C","u","s","t","I","D">>, <<"C","u","s","t","N","a","m","e">> >>,
      << <<" ","c","u","s","t","I","d"," ">>, <<"c","u","s","t","N","a","m","e">> >>,
      << <<"C","u","s","t","o","m","e","r","I","D">>, <<"N","a","m","e">> >>,
      << <<"C","u","s","t","I","D">>, <<"N","a","m","e">> >> }

CleanTables == {Table(h, rs) : h \in CleanHeaders, rs \in SampleRows}

CleanFiles ==
    {[path \in {CustomersRaw, CustomersCleaned} |->
         IF path = CustomersRaw THEN raw ELSE old] :
      raw \in {NoFile, Garbled} \cup {Csv(t) : t \in CleanTables},
      old \in {NoFile, Csv(StaleTable)}}

InitClean ==
    /\ files \in CleanFiles
    /\ pre = files
    /\ run = [pc |-> "start", exit |-> 0 - 1]
    /\ log = <<>>
    /\ disk = NoDatabase
    /\ left = 1
    /\ df = EmptyTable
    /\ caller = EmptyTable
    /\ aliased = TRUE
    /\ ret = NoReturn
    /\ raised = "none"
    /\ lastOp = [op |-> "__init__", args |-> <<>>]

NextClean == Call_clean_customers

SpecClean == InitClean /\ [][NextClean]_vars

(***************************************************************************)
(* The readers of raw CSV files: data_prep.read_and_log and read_raw_data  *)
(* of prepare_customers_data and prepare_products_data.                    *)
(***************************************************************************)
\* pd.read_csv on a file
ReadCsv(f) ==
    IF ~f.exists THEN [table |-> EmptyTable, raised |-> "FileNotFoundError"]
    ELSE IF ~f.readable THEN [table |-> EmptyTable, raised |-> "ParserError"]
    ELSE [table |-> f.table, raised |-> "none"]

ReadResult(t, e, levels) == [ret |-> Returned(t), raised |-> e, log |-> levels]

\* data_prep.read_and_log(path)
read_and_log(fs, path) ==
    LET r == ReadCsv(fs[path]) IN
    IF r.raised = "none" THEN ReadResult(r.table, "none", <<"INFO", "INFO">>)
    ELSE IF r.raised = "FileNotFoundError"
    THEN ReadResult(EmptyTable, "none", <<"INFO", "ERROR">>)
    ELSE ReadResult(EmptyTable, "none", <<"INFO", "ERROR">>)

\* a reader that handles the missing file only
read_raw_data_not_found_only(fs, path) ==
    LET r == ReadCsv(fs[path]) IN
    IF r.raised = "none" THEN ReadResult(r.table, "none", <<"INFO">>)
    ELSE IF r.raised = "FileNotFoundError"
    THEN ReadResult(EmptyTable, "none", <<"INFO", "ERROR">>)
    ELSE ReadResult(EmptyTable, r.raised, <<"INFO">>)

\* prepare_customers_data.read_raw_data(file_name), path being
\* RAW_DATA_DIR / file_name
customers_read_raw_data(fs, path) ==
    LET r == ReadCsv(fs[path]) IN
    IF r.raised = "none" THEN ReadResult(r.table, "none", <<"INFO">>)
    ELSE IF r.raised = "FileNotFoundError"
    THEN ReadResult(EmptyTable, "none", <<"INFO", "ERROR">>)
    ELSE ReadResult(EmptyTable, "none", <<"INFO", "ERROR">>)

\* prepare_products_data.read_raw_data(file_name)
products_read_raw_data(fs, path) ==
    LET r == ReadCsv(fs[path]) IN
    IF r.raised = "none" THEN ReadResult(r.table, "none", <<"INFO">>)
    ELSE IF r.raised = "FileNotFoundError"
    THEN ReadResult(EmptyTable, "none", <<"INFO", "ERROR">>)
    ELSE ReadResult(EmptyTable, "none", <<"INFO", "ERROR">>)

\* one call of a reader: r is what it gives
Read(op, path, r) ==
    /\ left > 0
    /\ ret' = r.ret
    /\ raised' = r.raised
    /\ log' = r.log
    /\ lastOp' = [op |-> op, args |-> <<path>>]
    /\ left' = left - 1
    /\ UNCHANGED <<df, caller, aliased, pre, files, disk, run>>

RawPaths == {RawPath(n) : n \in Range(DemoDatasets)}

Call_read_and_log ==
    \E path \in RawPaths : Read("read_and_log", path, read_and_log(files, path))

Call_customers_read_raw_data ==
    \E path \in RawPaths :
        Read("customers.read_raw_data", path, customers_read_raw_data(files, path))

Call_products_read_raw_data ==
    \E path \in RawPaths :
        Read("products.read_raw_data", path, products_read_raw_data(files, path))

\* raw files: absent, not parseable, a header without rows, or a table
ReadableTables ==
    DemoTables \cup {Table(<< <<"C","u","s","t","o","m","e","r","I","D">>, <<"N","a","m","e">> >>, <<>>)}

ReadFiles ==
    [RawPaths -> {NoFile, Garbled} \cup {Csv(t) : t \in ReadableTables}]

InitRead ==
    /\ files \in ReadFiles
    /\ pre = EmptyTable
    /\ run = NoScript
    /\ log = <<>>
    /\ disk = NoDatabase
    /\ left = MaxSteps
    /\ df = EmptyTable
    /\ caller = EmptyTable
    /\ aliased = TRUE
    /\ ret = NoReturn
    /\ raised = "none"
    /\ lastOp = [op |-> "__init__", args |-> <<>>]

NextRead ==
    \/ Call_read_and_log
    \/ Call_customers_read_raw_data
    \/ Call_products_read_raw_data

SpecRead == InitRead /\ [][NextRead]_vars

(***************************************************************************)
(* Statistics of a column, as pandas computes them on the numbers (or the  *)
(* texts) that are not missing.                                            *)
(***************************************************************************)
NumbersOf(col) ==
    LET cells == SelectSeq(col, LAMBDA c : c.t = "num") IN
    [i \in DOMAIN cells |-> cells[i].n]

RECURSIVE Insert(_, _)
Insert(x, s) ==
    IF s = <<>> THEN <<x>>
    ELSE IF x <= Head(s) THEN <<x>> \o s
    ELSE <<Head(s)>> \o Insert(x, Tail(s))

RECURSIVE SortInts(_)
SortInts(s) == IF s = <<>> THEN <<>> ELSE Insert(Head(s), SortInts(Tail(s)))

RECURSIVE Sum(_)
Sum(s) == IF s = <<>> THEN 0 ELSE Head(s) + Sum(Tail(s))

\* Series.median(): NaN without numbers, else the middle number or the
\* mean of the two middle numbers (whole for the even numbers of the
\* tables of this model)
Median(col) ==
    LET xs == SortInts(NumbersOf(col))
        n == Len(xs)
    IN  IF n = 0 THEN NA
        ELSE Num((xs[(n + 1) \div 2] + xs[(n + 2) \div 2]) \div 2)

\* the characters of the model in the order of their code points
CodeOrder ==
    <<" ", "-", "/">> \o DigitChars \o <<"?", "@">> \o UpperChars \o <<"_">>
    \o LowerChars

RECURSIVE TextLessEq(_, _)
TextLessEq(a, b) ==
    IF a = <<>> THEN TRUE
    ELSE IF b = <<>> THEN FALSE
    ELSE IF a[1] = b[1] THEN TextLessEq(Tail(a), Tail(b))
    ELSE PosIn(CodeOrder, a[1]) < PosIn(CodeOrder, b[1])

CellLessEq(c, d) == IF c.t = "num" THEN c.n <= d.n ELSE TextLessEq(c.s, d.s)

\* Series.mode()[0]: the most frequent value, the smallest of them when
\* several are; NaN stands for an empty mode
Mode(col) ==
    LET present == {c \in Range(col) : ~IsMissing(c)}
        Count(c) == Cardinality({r \in DOMAIN col : col[r] = c})
        best == {c \in present : \A d \in present : Count(d) <= Count(c)}
    IN  IF present = {} THEN NA
        ELSE CHOOSE c \in best : \A d \in best : CellLessEq(c, d)

\* Series.between(mean - 3 * std, mean + 3 * std) for the number x of a
\* column with the numbers xs: std is the sample deviation, NaN for fewer
\* than two numbers, and nothing lies between NaN bounds
WithinThreeSigma(xs, x) ==
    LET n == Len(xs)
        s == Sum(xs)
        sq == Sum([i \in DOMAIN xs |-> xs[i] * xs[i]])
    IN  /\ n >= 2
        /\ (n * x - s) * (n * x - s) * (n - 1) <= 9 * n * (n * sq - s * s)

(***************************************************************************)
(* data_preparation/prepare_customers_data.py.  A step gives the table it  *)
(* returns and the exception it raises.                                    *)
(***************************************************************************)
LoyaltyPoints == <<"L","o","y","a","l","t","y","P","o","i","n","t","s">>
EngagementStyle == <<"E","n","g","a","g","e","m","e","n","t","S","t","y","l","e">>

CustomersRawPath == "data/raw/customers_data.csv"

StepResult(t, e) == [table |-> t, raised |-> e]

\* handle_missing_values: median() refuses a column of texts
customers_handle_missing_values(t) ==
    IF HasColumn(t, LoyaltyPoints)
       /\ \E r \in DOMAIN t.rows : Column(t, LoyaltyPoints)[r].t = "str"
    THEN StepResult(t, "TypeError")
    ELSE LET points ==
                 IF HasColumn(t, LoyaltyPoints)
                 THEN LET old == Column(t, LoyaltyPoints) IN
                      SetColumn(t, LoyaltyPoints,
                          [r \in DOMAIN old |->
                              IF IsMissing(old[r]) THEN Median(old) ELSE old[r]])
                 ELSE t
             styles ==
                 IF HasColumn(points, EngagementStyle)
                    /\ ~IsMissing(Mode(Column(points, EngagementStyle)))
                 THEN LET old == Column(points, EngagementStyle) IN
                      SetColumn(points, EngagementStyle,
                          [r \in DOMAIN old |->
                              IF IsMissing(old[r]) THEN Mode(old) ELSE old[r]])
                 ELSE points
         IN  StepResult(styles, "none")

\* style_map and .fillna('Unknown') on one trimmed text
MapStyle(x) ==
    CASE x = <<"M","o","b","i","l","e">> -> <<"M","o","b","i","l","e">>
      [] x = <<"D","e","s","k","t","o","p">> -> <<"D","e","s","k","t","o","p">>
      [] x = <<"I","n","S","t","o","r","e">> -> <<"I","n","S","t","o","r","e">>
      [] x = <<"K","i","o","s","k">> -> <<"I","n","S","t","o","r","e">>
      [] x = <<"T","a","b","l","e","t">> -> <<"M","o","b","i","l","e">>
      [] OTHER -> Unknown

customers_clean_values(t) ==
    LET positive ==
            IF HasColumn(t, LoyaltyPoints)
            THEN LET old == Column(t, LoyaltyPoints) IN
                 MaskRows(t, [r \in DOMAIN old |-> old[r].t = "num" /\ old[r].n >= 0])
            ELSE t
        whole ==
            IF HasColumn(positive, LoyaltyPoints)
            THEN LET old == Column(positive, LoyaltyPoints) IN
                 SetColumn(positive, LoyaltyPoints,
                     [r \in DOMAIN old |->
                         IF IsMissing(ToNumeric(old[r])) THEN Num(0)
                         ELSE ToNumeric(old[r])])
            ELSE positive
    IN  IF HasColumn(whole, EngagementStyle)
        THEN LET old == Column(whole, EngagementStyle) IN
             SetColumn(whole, EngagementStyle,
                 [r \in DOMAIN old |-> Str(MapStyle(Strip(AsTypeStr(old[r]).s)))])
        ELSE whole

customers_remove_outliers(t) ==
    IF HasColumn(t, LoyaltyPoints)
    THEN LET old == Column(t, LoyaltyPoints)
             xs == NumbersOf(old)
         IN  MaskRows(t, [r \in DOMAIN old |->
                 /\ old[r].t = "num"
                 /\ old[r].n >= 0
                 /\ WithinThreeSigma(xs, old[r].n)])
    ELSE t

StageResult(fs, e) == [files |-> fs, raised |-> e]

\* prepare_customers_data.main(): the names are trimmed unless the table
\* read is empty; the prints after remove_duplicates read both columns
prepare_customers_main(fs) ==
    LET read == customers_read_raw_data(fs, CustomersRawPath).ret.table
        named == IF read.rows # <<>>
                 THEN Table([i \in DOMAIN read.columns |-> Strip(read.columns[i])],
                            read.rows)
                 ELSE read
        distinct == DropDuplicates(named, AllIdx(named))
    IN  IF ~HasColumn(distinct, LoyaltyPoints) \/ ~HasColumn(distinct, EngagementStyle)
        THEN StageResult(fs, "KeyError")
        ELSE LET filled == customers_handle_missing_values(distinct) IN
             IF filled.raised # "none" THEN StageResult(fs, filled.raised)
             ELSE LET kept == customers_remove_outliers(
                                  customers_clean_values(filled.table))
                  IN  StageResult([fs EXCEPT ![CustomersPrepared] = Csv(kept)], "none")

(***************************************************************************)
(* data_preparation/prepare_products_data.py: main and clean_products_data *)
(***************************************************************************)
stock_level == <<"s","t","o","c","k","_","l","e","v","e","l">>
supplier_tier == <<"s","u","p","p","l","i","e","r","_","t","i","e","r">>

ProductsRawPath == "data/raw/products_data.csv"

\* Series.quantile(0.99), rounded down: among whole numbers, x <= q
\* exactly when x <= floor(q).  The quantile lies between the two largest
\* numbers (for up to 100 of them), 99(n-1)/100 - (n-2) of the way up.
FloorQuantile99(col) ==
    LET xs == SortInts(NumbersOf(col))
        n == Len(xs)
    IN  IF n = 1 THEN xs[1]
        ELSE (100 * xs[n - 1] + (99 * (n - 1) - 100 * (n - 2)) * (xs[n] - xs[n - 1]))
             \div 100

\* tier_map and .fillna("Standard") on one trimmed, lowercased text
MapTier(x) ==
    CASE x = <<"b","a","s","i","c">> -> <<"B","a","s","i","c">>
      [] x = <<"p","r","e","f","e","r","r","e","d">> -> <<"P","r","e","f","e","r","r","e","d">>
      [] x = <<"p","r","e","m","i","u","m">> -> <<"P","r","e","m","i","u","m">>
      [] OTHER -> <<"S","t","a","n","d","a","r","d">>

\* clean_products_data(): a method result, or the exception of read_csv or
\* of the quantile of stock_level, which is taken before filter_outliers
\* is entered
clean_products_data(fs) ==
    LET read == ReadCsv(fs[ProductsRawPath]) IN
    IF read.raised # "none" THEN Raise(New(EmptyTable), read.raised)
    ELSE LET named == standardize_column_names(New(read.table))
             distinct == Then(named, LAMBDA s : remove_duplicate_records(s, <<>>))
             filled == Then(distinct, LAMBDA s : handle_missing_data(s, FALSE, Num(0)))
         IN  IF ~HasColumn(filled.df, stock_level)
             THEN Raise(Scrubber(filled), "KeyError")
             ELSE LET stock == Column(filled.df, stock_level) IN
                  IF \E r \in DOMAIN stock : stock[r].t # "num"
                  THEN Raise(Scrubber(filled), "TypeError")
                  ELSE IF stock = <<>>
                  THEN ReturnDf(Scrubber(filled))
                  ELSE filter_outliers(Scrubber(filled), stock_level, 0,
                                       FloorQuantile99(stock))

\* prepare_products_data.main(): the file is written before the last log
\* lines read supplier_tier again
prepare_products_main(fs) ==
    LET cleaned == clean_products_data(fs) IN
    IF cleaned.raised # "none" THEN StageResult(fs, cleaned.raised)
    ELSE LET tiered ==
                 IF HasColumn(cleaned.df, supplier_tier)
                 THEN LET old == Column(cleaned.df, supplier_tier) IN
                      SetColumn(cleaned.df, supplier_tier,
                          [r \in DOMAIN old |->
                              Str(MapTier(Lower(Strip(AsTypeStr(old[r]).s))))])
                 ELSE cleaned.df
             written == [fs EXCEPT ![ProductsPrepared] = Csv(tiered)]
         IN  IF HasColumn(tiered, supplier_tier)
             THEN StageResult(written, "none")
             ELSE StageResult(written, "KeyError")

(***************************************************************************)
(* data_preparation/prepare_sales_data.py: main, clean_sales_data and the  *)
(* block that runs the file as a script.                                   *)
(***************************************************************************)
TransactionID == <<"T","r","a","n","s","a","c","t","i","o","n","I","D">>
SaleDate == <<"S","a","l","e","D","a","t","e">>
CustomerID == <<"C","u","s","t","o","m","e","r","I","D">>
ProductID == <<"P","r","o","d","u","c","t","I","D">>
StoreID == <<"S","t","o","r","e","I","D">>
CampaignID == <<"C","a","m","p","a","i","g","n","I","D">>
SaleAmount == <<"S","a","l","e","A","m","o","u","n","t">>
PaymentMethod == <<"P","a","y","m","e","n","t","M","e","t","h","o","d">>

SalesRawPath == "data/raw/sales_data.csv"
SalesPrepared == "data/prepared/sales_prepared.csv"

required_cols == <<TransactionID, SaleDate, CustomerID, ProductID, SaleAmount>>

\* col.str.strip(), then blank texts and "?" become missing
StripOrBlank(c) ==
    IF c.t # "str" THEN c
    ELSE IF Strip(c.s) = <<>> \/ Strip(c.s) = <<"?">> THEN NA
    ELSE Str(Strip(c.s))

\* .str.replace(" ", "")
RECURSIVE WithoutSpaces(_)
WithoutSpaces(x) ==
    IF x = <<>> THEN <<>>
    ELSE (IF Head(x) = " " THEN <<>> ELSE <<Head(x)>>) \o WithoutSpaces(Tail(x))

\* the replacement of payment methods on one text
MapPayment(x) ==
    CASE x = <<"C","r","e","d","i","t","c","a","r","d">> -> Str(<<"C","r","e","d","i","t"," ","C","a","r","d">>)
      [] x = <<"P","a","y","p","a","l">> -> Str(<<"P","a","y","P","a","l">>)
      [] x = <<"G","i","f","t","c","a","r","d">> -> Str(<<"G","i","f","t","C","a","r","d">>)
      [] x = <<"B","i","t","c","o","i","n">> -> NA
      [] OTHER -> Str(x)

\* four times the quantile k/4 of the sorted numbers xs, by linear
\* interpolation
Quartile4(xs, k) ==
    LET pos == k * (Len(xs) - 1)
        f == pos \div 4
        rest == pos % 4
    IN  IF rest = 0 THEN 4 * xs[f + 1]
        ELSE 4 * xs[f + 1] + rest * (xs[f + 2] - xs[f + 1])

\* q1 - 1.5 * iqr <= x <= q3 + 1.5 * iqr, all of it times 8
WithinIqr(xs, x) ==
    LET sorted == SortInts(xs)
        q1 == Quartile4(sorted, 1)
        q3 == Quartile4(sorted, 3)
    IN  /\ 2 * q1 - 3 * (q3 - q1) <= 8 * x
        /\ 8 * x <= 2 * q3 + 3 * (q3 - q1)

\* the value of Op at v, v being computed once: one statement's result
\* handed to the next statement
With(v, Op(_)) == CHOOSE r \in {Op(x) : x \in {v}} : TRUE

\* df.apply(strip), the two replacements by pd.NA and dropna(how="any")
sales_strip_and_drop(t) ==
    DropNa(Table(t.columns,
                 [r \in DOMAIN t.rows |->
                     [i \in DOMAIN t.rows[r] |-> StripOrBlank(t.rows[r][i])]]))

\* SaleAmount: to_numeric(errors="coerce").fillna(0), rows with 0 dropped
sales_amounts(t) ==
    IF HasColumn(t, SaleAmount)
    THEN LET old == Column(t, SaleAmount)
             amount == [r \in DOMAIN old |->
                           IF IsMissing(ToNumeric(old[r])) THEN Num(0)
                           ELSE ToNumeric(old[r])]
         IN  MaskRows(SetColumn(t, SaleAmount, amount),
                      [r \in DOMAIN old |-> amount[r] # Num(0)])
    ELSE t

\* PaymentMethod: spaces removed, title case, the replacements, and the
\* rows left without a method dropped
sales_payment_methods(t) ==
    IF HasColumn(t, PaymentMethod)
    THEN LET old == Column(t, PaymentMethod)
             method == [r \in DOMAIN old |->
                           IF old[r].t = "str"
                           THEN MapPayment(Title(WithoutSpaces(old[r].s)))
                           ELSE NA]
         IN  MaskRows(SetColumn(t, PaymentMethod, method),
                      [r \in DOMAIN old |-> ~IsMissing(method[r])])
    ELSE t

\* CampaignID: to_numeric(errors="coerce").fillna(0).astype(int)
sales_campaigns(t) ==
    IF HasColumn(t, CampaignID)
    THEN LET old == Column(t, CampaignID) IN
         SetColumn(t, CampaignID,
             [r \in DOMAIN old |->
                 IF IsMissing(ToNumeric(old[r])) THEN Num(0)
                 ELSE ToNumeric(old[r])])
    ELSE t

\* dropna(subset=required_cols)
sales_required(t) ==
    IF ~HasAll(t, required_cols) THEN StepResult(t, "KeyError")
    ELSE StepResult(MaskRows(t,
             [r \in DOMAIN t.rows |->
                 \A k \in DOMAIN required_cols :
                     ~IsMissing(Column(t, required_cols[k])[r])]),
             "none")

clean_sales_data(t) ==
    With(sales_strip_and_drop(t), LAMBDA complete :
    With(sales_amounts(complete), LAMBDA sold :
    With(sales_payment_methods(sold), LAMBDA paid :
    With(sales_campaigns(paid), LAMBDA campaigned :
    sales_required(campaigned)))))

\* remove_outliers(df, "SaleAmount") inside main()
sales_remove_outliers(t) ==
    LET amounts == Column(t, SaleAmount) IN
    MaskRows(t, [r \in DOMAIN amounts |->
                    WithinIqr(NumbersOf(amounts), amounts[r].n)])

\* main(): read_raw_data has no try; after clean_sales_data no cell is
\* missing, so the loops that fill with the median and the mode find
\* nothing to fill.  paths: where the table is written
prepare_sales(fs, paths) ==
    With(ReadCsv(fs[SalesRawPath]), LAMBDA read :
    IF read.raised # "none" THEN StageResult(fs, read.raised)
    ELSE With(clean_sales_data(Table([i \in DOMAIN read.table.columns |->
                                         Strip(read.table.columns[i])],
                                     read.table.rows)), LAMBDA cleaned :
         IF cleaned.raised # "none" THEN StageResult(fs, cleaned.raised)
         ELSE With(DropDuplicates(cleaned.table,
                                  <<Idx(cleaned.table, TransactionID)>>), LAMBDA distinct :
              With(Csv(sales_remove_outliers(distinct)), LAMBDA kept :
              StageResult([path \in DOMAIN fs |->
                              IF path \in paths THEN kept ELSE fs[path]],
                          "none")))))

\* main() called from another module
prepare_sales_main(fs) == prepare_sales(fs, {SalesPrepared})

\* python prepare_sales_data.py: main(), then the table it returned is
\* written a second time
prepare_sales_script(fs) == prepare_sales(fs, {SalesPrepared, SalesDataPrepared})

(***************************************************************************)
(* The pipeline: the three preparation stages and the warehouse loader,    *)
(* each run at most once, in any order, on the raw files of data/raw.      *)
(***************************************************************************)
Name == <<"N","a","m","e">>
Region == <<"R","e","g","i","o","n">>
JoinDate == <<"J","o","i","n","D","a","t","e">>
ProductName == <<"P","r","o","d","u","c","t","N","a","m","e">>
Category == <<"C","a","t","e","g","o","r","y">>
UnitPrice == <<"U","n","i","t","P","r","i","c","e">>
StockLevel == <<"S","t","o","c","k","L","e","v","e","l">>
SupplierTier == <<"S","u","p","p","l","i","e","r","T","i","e","r">>

\* utils/restore_raw_data.py: the columns of the files as delivered
OriginalCustomers == <<CustomerID, Name, Region, JoinDate>>
OriginalProducts == <<ProductID, ProductName, Category, UnitPrice>>
OriginalSales == <<TransactionID, SaleDate, CustomerID, ProductID, StoreID,
                   CampaignID, SaleAmount>>

RawCustomer(id, points, style) ==
    <<Num(id), Str(<<"A","n","n">>), Str(East), Str(<<"2","0","2","4","-","0","1","-","0","5">>), points, style>>

RawCustomersFiles ==
    LET enriched == OriginalCustomers \o <<LoyaltyPoints, EngagementStyle>>
        suffixed == OriginalCustomers
                    \o <<<<"L","o","y","a","l","t","y","P","o","i","n","t","s","_","i","n","t">>, <<"E","n","g","a","g","e","m","e","n","t","S","t","y","l","e","_","s","t","r">>>>
        ann == RawCustomer(1, Num(100), Str(<<"M","o","b","i","l","e">>))
        bob == RawCustomer(2, NA, Str(<<" ","K","i","o","s","k">>))
        cy == RawCustomer(3, Num(300), NA)
        tab == RawCustomer(1, Num(100), Str(<<"T","a","b","l","e","t">>))
    IN  { NoFile, Garbled,
          Csv(Table(enriched, <<ann, bob, cy>>)),
          Csv(Table(enriched, <<ann, tab>>)),
          Csv(Table(enriched, <<ann, ann>>)),
          Csv(Table(enriched, <<RawCustomer(1, Str(<<"m","a","n","y">>), Str(<<"M","o","b","i","l","e">>))>>)),
          Csv(Table(suffixed, <<ann, bob>>)),
          Csv(Table(OriginalCustomers, <<SubSeq(ann, 1, 4)>>)) }

RawProduct(id, stock, tier) ==
    <<Num(id), Str(Widget), Str(Tools), Num(5), stock, tier>>

RawProductsFiles ==
    LET enriched == OriginalProducts \o <<StockLevel, SupplierTier>>
        stocked == OriginalProducts \o <<StockLevel>>
        one == RawProduct(101, Num(10), Str(<<" ","p","r","e","m","i","u","m">>))
        two == RawProduct(102, Num(200), NA)
        three == RawProduct(103, NA, Str(<<"G","o","l","d">>))
    IN  { NoFile, Garbled,
          Csv(Table(enriched, <<one, two, three>>)),
          Csv(Table(enriched, <<one, one>>)),
          Csv(Table(enriched, <<RawProduct(101, Str(<<"f","e","w">>), Str(<<"b","a","s","i","c">>))>>)),
          Csv(Table(stocked, <<SubSeq(one, 1, 5), SubSeq(two, 1, 5)>>)),
          Csv(Table(OriginalProducts, <<SubSeq(one, 1, 4)>>)) }

RawSale(id, campaign, amount, method) ==
    <<Num(id), Str(<<"2","0","2","5","-","0","1","-","0","2">>), Num(1), Num(101), Num(401), campaign,
      amount, method>>

RawSalesFiles ==
    LET paid == OriginalSales \o <<PaymentMethod>>
        first == RawSale(501, Num(1), Num(50), Str(<<"c","r","e","d","i","t"," ","c","a","r","d">>))
        second == RawSale(502, Str(<<"x">>), Num(70), Str(<<"C","a","s","h">>))
        again == RawSale(501, Num(2), Num(90), Str(<<"C","a","s","h">>))
        free == RawSale(503, Num(0), Num(0), Str(<<"C","a","s","h">>))
        coin == RawSale(504, Num(0), Num(20), Str(<<"b","i","t","c","o","i","n">>))
        asked == RawSale(505, Num(0), Num(30), Str(<<"?">>))
    IN  { NoFile, Garbled,
          Csv(Table(paid, <<first, second, again>>)),
          Csv(Table(paid, <<first, free, coin, asked>>)),
          Csv(Table(OriginalSales, <<SubSeq(first, 1, 7), SubSeq(second, 1, 7)>>)),
          Csv(Table(Tail(OriginalSales), <<Tail(SubSeq(first, 1, 7))>>)) }

PipelinePaths ==
    {CustomersRawPath, ProductsRawPath, SalesRawPath,
     CustomersPrepared, ProductsPrepared, SalesPrepared, SalesDataPrepared}

PipelineFiles ==
    {[path \in PipelinePaths |->
         CASE path = CustomersRawPath -> c
           [] path = ProductsRawPath -> p
           [] path = SalesRawPath -> s
           [] OTHER -> NoFile] :
      c \in RawCustomersFiles, p \in RawProductsFiles, s \in RawSalesFiles}

\* raw files in data/raw, nothing in data/prepared, an empty warehouse
InitPipeline ==
    /\ files \in PipelineFiles
    /\ disk = NoDatabase
    /\ left = 1
    /\ df = EmptyTable
    /\ caller = EmptyTable
    /\ aliased = TRUE
    /\ pre = disk
    /\ ret = NoReturn
    /\ raised = "none"
    /\ lastOp = [op |-> "__init__", args |-> <<>>]
    /\ log = <<>>
    /\ run = [pc |-> "pipeline", ran |-> {}]

\* one run of a stage: r is what it leaves
Stage(op, r) ==
    /\ run.pc = "pipeline"
    /\ op \notin run.ran
    /\ files' = r.files
    /\ raised' = r.raised
    /\ ret' = NoReturn
    /\ lastOp' = [op |-> op, args |-> <<>>]
    /\ run' = [run EXCEPT !.ran = @ \cup {op}]
    /\ UNCHANGED <<df, caller, aliased, disk, left, log, pre>>

Call_prepare_customers_main == Stage("prepare_customers_main", prepare_customers_main(files))

Call_prepare_products_main == Stage("prepare_products_main", prepare_products_main(files))

Call_prepare_sales_main == Stage("prepare_sales_main", prepare_sales_main(files))

Call_prepare_sales_script == Stage("prepare_sales_script", prepare_sales_script(files))

NextPipeline ==
    \/ Call_prepare_customers_main
    \/ Call_prepare_products_main
    \/ Call_prepare_sales_main
    \/ Call_prepare_sales_script
    \/ Call_load_data_to_db

SpecPipeline == InitPipeline /\ [][NextPipeline]_vars


(***************************************************************************)
(* Vocabulary of the properties.  Each is about the last call: lastOp is   *)
(* the method and its arguments, pre the table self.df before the call,    *)
(* df the table after it.                                                  *)
(***************************************************************************)
Called(op) == lastOp.op = op
Completed(op) == lastOp.op = op /\ raised = "none"

\* the methods whose first argument is the name of a column to read
OneColumnMethods ==
    {"format_column_strings", "filter_outliers", "convert_column_type",
     "parse_date_column", "remove_negative_values",
     "standardize_categorical_column", "override_invalid_dates"}

CalledWithAbsentColumn ==
    \/ /\ lastOp.op \in OneColumnMethods
       /\ ~HasColumn(pre, lastOp.args[1])
    \/ /\ Called("rename_columns")
       /\ \E old \in DOMAIN lastOp.args[1] : ~HasColumn(pre, old)
    \/ /\ Called("reorder_columns")
       /\ \E k \in DOMAIN lastOp.args[1] : ~HasColumn(pre, lastOp.args[1][k])
    \/ /\ Called("correct_zero_sales_discount")
       /\ (~HasColumn(pre, sale_amount) \/ ~HasColumn(pre, discount_percent))

\* C1: every method that is given a column name (or, for
\* correct_zero_sales_discount, uses its fixed columns) raises ValueError
\* when that column is absent from the table.
C1_AbsentColumnRaisesValueError ==
    CalledWithAbsentColumn => raised = "ValueError"

\* the rows left by remove_duplicate_records() on a scrubber
Deduplicated(s) == remove_duplicate_records(s, <<>>).df.rows

FilledMissing == Completed("handle_missing_data") /\ ~lastOp.args[1] /\ lastOp.args[2] # PyNone
Formatted == Completed("format_column_strings")

\* the other order, from the table before the call: duplicates removed
\* first, then the call
DedupeThenFill ==
    handle_missing_data(remove_duplicate_records(New(pre), <<>>),
                        FALSE, lastOp.args[2])
DedupeThenFormat ==
    format_column_strings(remove_duplicate_records(New(pre), <<>>),
                          lastOp.args[1], lastOp.args[2])

\* C2 (as claimed): the operations are independent of their order:
\* handle_missing_data(fill_value=v) followed by remove_duplicate_records
\* gives the same rows as remove_duplicate_records followed by
\* handle_missing_data(fill_value=v), and likewise for
\* format_column_strings and remove_duplicate_records.
C2_OrderIndependent ==
    /\ FilledMissing => Deduplicated(Self) = DedupeThenFill.df.rows
    /\ Formatted => Deduplicated(Self) = DedupeThenFormat.df.rows

\* C2 (amended): the two orders agree only up to duplicates: filling (or
\* formatting) and then removing duplicates gives the rows that removing
\* duplicates, filling (or formatting) and removing duplicates once more
\* gives.
C2_OrderAgreesAfterSecondDedupe ==
    /\ FilledMissing => Deduplicated(Self) = Deduplicated(DedupeThenFill)
    /\ Formatted => Deduplicated(Self) = Deduplicated(DedupeThenFormat)

\* C2 witness: a fill made two rows equal that were not, so that the two
\* orders leave different numbers of rows
C2_Witness ==
    /\ FilledMissing
    /\ Len(Deduplicated(Self)) < Len(DedupeThenFill.df.rows)
    /\ Deduplicated(Self) = Deduplicated(DedupeThenFill)

\* C3 (as claimed): no two columns of the table have the same name, in
\* every state reached from a table with distinct column names.
C3_ColumnNamesUnique == UniqueColumns(df)

RenamingMethods == {"standardize_column_names", "rename_columns", "reorder_columns"}

\* C3 (amended): column names that are distinct stay distinct under every
\* method except standardize_column_names, rename_columns and
\* reorder_columns (these three can produce a duplicate name and do not
\* raise).
C3_OtherMethodsKeepNamesUnique ==
    (UniqueColumns(pre) /\ lastOp.op \notin RenamingMethods) => UniqueColumns(df)

\* C3 witness: parse_date_column added a column to a table with distinct
\* names
C3_Witness ==
    /\ Completed("parse_date_column")
    /\ UniqueColumns(pre)
    /\ Len(df.columns) = Len(pre.columns) + 1
    /\ UniqueColumns(df)

\* C4: the table object handed to the constructor has the same columns and
\* rows as self.df after any sequence of calls.
C4_CallerTableIsSelfDf == caller = df

\* C5: whenever a method other than save and inspect completes without
\* raising, the table it returns is self.df as it stands after the call.
C5_ReturnsSelfDf ==
    (raised = "none" /\ lastOp.op \notin {"__init__", "save", "inspect"})
        => ret = Returned(df)

\* C5 witness: a second call, handle_missing_data, changed the table and
\* returned it
C5_Witness ==
    /\ Completed("handle_missing_data")
    /\ left = 0
    /\ df # pre
    /\ ret = Returned(df)


\* the key columns of the last remove_duplicate_records call
DedupeKey ==
    IF lastOp.args[1] = <<>> THEN AllIdx(pre) ELSE SubsetIdx(pre, lastOp.args[1])

\* the first row of pre that has the key k
FirstWithKey(k) ==
    CHOOSE i \in DOMAIN pre.rows :
        /\ RowKey(pre.rows[i], DedupeKey) = k
        /\ \A q \in 1..(i - 1) : RowKey(pre.rows[q], DedupeKey) # k

\* C6: after remove_duplicate_records no two remaining rows are equal on
\* the key columns (all columns, or those of subset); of each group of
\* duplicates exactly the first occurrence is kept, the kept rows stay in
\* their original relative order, no row without a duplicate is removed,
\* and a second application changes nothing.
C6_RemoveDuplicatesKeepsFirst ==
    Completed("remove_duplicate_records") =>
        LET K == DedupeKey
            key(row) == RowKey(row, K)
        IN /\ df.columns = pre.columns
           /\ \A i, j \in DOMAIN df.rows :
                  i < j => key(df.rows[i]) # key(df.rows[j])
           /\ \A j \in DOMAIN df.rows :
                  df.rows[j] = pre.rows[FirstWithKey(key(df.rows[j]))]
           /\ \A i, j \in DOMAIN df.rows :
                  i < j => FirstWithKey(key(df.rows[i])) < FirstWithKey(key(df.rows[j]))
           /\ \A i \in DOMAIN pre.rows :
                  \E j \in DOMAIN df.rows : key(df.rows[j]) = key(pre.rows[i])
           /\ remove_duplicate_records(Self, lastOp.args[1]).df = df

\* C6 witness: of three rows the third equals the first on the subset only
\* and was dropped, the second was kept behind the first
C6_Witness ==
    /\ Completed("remove_duplicate_records")
    /\ lastOp.args[1] # <<>>
    /\ Len(pre.rows) = 3
    /\ pre.rows[1] # pre.rows[3]
    /\ RowKey(pre.rows[1], DedupeKey) = RowKey(pre.rows[3], DedupeKey)
    /\ df.rows = <<pre.rows[1], pre.rows[2]>>

NoMissing(row) == \A i \in DOMAIN row : ~IsMissing(row[i])

\* C7: handle_missing_data with drop=True leaves exactly the rows that had
\* no missing value (whatever fill_value is); with drop=False and a
\* fill_value other than None (0 and "" included) every missing cell holds
\* fill_value, no row is removed and the other cells are unchanged; with
\* drop=False and fill_value=None the table is unchanged.
C7_HandleMissingData ==
    Completed("handle_missing_data") =>
        LET drop == lastOp.args[1]
            fill_value == lastOp.args[2]
        IN /\ df.columns = pre.columns
           /\ drop => df.rows = SelectSeq(pre.rows, NoMissing)
           /\ (~drop /\ fill_value # PyNone) =>
                  /\ Len(df.rows) = Len(pre.rows)
                  /\ \A r \in DOMAIN pre.rows : \A i \in DOMAIN pre.rows[r] :
                         df.rows[r][i] = IF IsMissing(pre.rows[r][i])
                                         THEN fill_value
                                         ELSE pre.rows[r][i]
           /\ (~drop /\ fill_value = PyNone) => df = pre

\* C7 witness: a table with a missing cell was filled with 0
C7_Witness ==
    /\ Completed("handle_missing_data")
    /\ ~lastOp.args[1]
    /\ lastOp.args[2] = Num(0)
    /\ \E r \in DOMAIN pre.rows : ~NoMissing(pre.rows[r])
    /\ \A r \in DOMAIN df.rows : NoMissing(df.rows[r])
    /\ Len(df.rows) = Len(pre.rows)

\* the cell is a number, or a text that reads as one, within the bounds
NumberWithin(c, min_val, max_val) ==
    \/ c.t = "num" /\ min_val <= c.n /\ c.n <= max_val
    \/ /\ c.t = "str"
       /\ IsNumericText(c.s)
       /\ min_val <= NumericTextValue(c.s)
       /\ NumericTextValue(c.s) <= max_val

NumberValue(c) == IF c.t = "num" THEN c.n ELSE NumericTextValue(c.s)

\* C8: filter_outliers(column, min_val, max_val) keeps exactly the rows
\* whose value in column is a number v with min_val <= v <= max_val, both
\* bounds inclusive, in their original order; rows whose value is missing
\* or not numeric are removed.
C8_FilterOutliersInclusive ==
    Completed("filter_outliers") =>
        LET i == Idx(pre, lastOp.args[1])
            lo == lastOp.args[2]
            hi == lastOp.args[3]
            within(row) == NumberWithin(row[i], lo, hi)
            kept == SelectSeq(pre.rows, within)
        IN /\ df.columns = pre.columns
           /\ \A r \in DOMAIN df.rows :
                  /\ df.rows[r][i].t = "num"
                  /\ lo <= df.rows[r][i].n
                  /\ df.rows[r][i].n <= hi
           /\ Len(df.rows) = Len(kept)
           /\ \A r \in DOMAIN kept : \A k \in DOMAIN kept[r] :
                  df.rows[r][k] = IF k = i THEN Num(NumberValue(kept[r][i]))
                                  ELSE kept[r][k]

\* C8 witness: a row holding exactly one of the bounds was kept, a row with
\* a missing value and a row with a text that is no number were removed
C8_Witness ==
    /\ Completed("filter_outliers")
    /\ LET i == Idx(pre, lastOp.args[1]) IN
       /\ \E r \in DOMAIN pre.rows : IsMissing(pre.rows[r][i])
       /\ \E r \in DOMAIN pre.rows :
              pre.rows[r][i].t = "str" /\ ~IsNumericText(pre.rows[r][i].s)
       /\ \E r \in DOMAIN df.rows :
              df.rows[r][i] \in {Num(lastOp.args[2]), Num(lastOp.args[3])}
       /\ Len(df.rows) = 1

SnakeChar(c) == IsLower(c) \/ IsDigit(c) \/ c = "_"

\* C9: after standardize_column_names every column name is made only of
\* lowercase letters, digits and underscores, and the number and order of
\* the columns and all cell values are unchanged.
C9_NamesAreSnakeCase ==
    Completed("standardize_column_names") =>
        /\ \A i \in DOMAIN df.columns : \A k \in DOMAIN df.columns[i] :
               SnakeChar(df.columns[i][k])
        /\ Len(df.columns) = Len(pre.columns)
        /\ df.rows = pre.rows

\* C10: reorder_columns(order), when every name of order exists, leaves the
\* column sequence equal to order, keeps every column the table had, and
\* changes no row.
C10_ReorderOnlyReorders ==
    Completed("reorder_columns") =>
        /\ df.columns = lastOp.args[1]
        /\ \A i \in DOMAIN pre.columns : HasColumn(df, pre.columns[i])
        /\ Len(df.rows) = Len(pre.rows)
        /\ \A r \in DOMAIN pre.rows : \A i \in DOMAIN pre.columns :
               df.rows[r][Idx(df, pre.columns[i])] = pre.rows[r][i]

\* C11: rename_columns(mapping), when every key of mapping is an existing
\* column, puts the mapped name at the position of each key and leaves
\* every other column name, the column order, the row count and every
\* cell unchanged.
C11_RenameOnlyRenames ==
    Completed("rename_columns") =>
        /\ Len(df.columns) = Len(pre.columns)
        /\ \A i \in DOMAIN pre.columns :
               /\ pre.columns[i] \in DOMAIN lastOp.args[1]
                      => df.columns[i] = lastOp.args[1][pre.columns[i]]
               /\ pre.columns[i] \notin DOMAIN lastOp.args[1]
                      => df.columns[i] = pre.columns[i]
        /\ df.rows = pre.rows

\* C11 witness: the first of two columns was renamed, over a table with
\* rows, and the second column kept its name and its place
C11_Witness ==
    /\ Completed("rename_columns")
    /\ Len(pre.columns) = 2
    /\ pre.columns[1] \in DOMAIN lastOp.args[1]
    /\ df.columns[1] # pre.columns[1]
    /\ df.columns[2] = pre.columns[2]
    /\ Len(df.rows) = MaxRows

HasOuterSpace(x) == x # <<>> /\ (IsSpace(Head(x)) \/ IsSpace(x[Len(x)]))

\* C12: format_column_strings(column, case) with case 'lower' (resp.
\* 'upper') leaves in column only text without leading or trailing
\* whitespace and without uppercase (resp. lowercase) letters; the other
\* columns, the column names, the row count and the row order are
\* unchanged; with any other case the table is unchanged and nothing is
\* raised.
C12_FormatTrimsAndCasesOneColumn ==
    (Called("format_column_strings") /\ HasColumn(pre, lastOp.args[1])) =>
        LET i == Idx(pre, lastOp.args[1])
            case == lastOp.args[2]
        IN  /\ raised = "none"
            /\ df.columns = pre.columns
            /\ Len(df.rows) = Len(pre.rows)
            /\ \A r \in DOMAIN pre.rows : \A j \in DOMAIN pre.columns :
                   j # i => df.rows[r][j] = pre.rows[r][j]
            /\ case \in {"lower", "upper"} =>
                   \A r \in DOMAIN df.rows :
                       /\ df.rows[r][i].t = "str"
                       /\ ~HasOuterSpace(df.rows[r][i].s)
                       /\ \A k \in DOMAIN df.rows[r][i].s :
                              IF case = "lower"
                              THEN ~IsUpper(df.rows[r][i].s[k])
                              ELSE ~IsLower(df.rows[r][i].s[k])
                       /\ Lower(df.rows[r][i].s)
                              = Lower(Strip(AsTypeStr(pre.rows[r][i]).s))
            /\ case \notin {"lower", "upper"} => df = pre

\* C12 witness: a value with a leading blank and an uppercase letter was
\* lowercased and trimmed
C12_Witness ==
    /\ Completed("format_column_strings")
    /\ lastOp.args[2] = "lower"
    /\ \E r \in DOMAIN pre.rows :
           LET i == Idx(pre, lastOp.args[1]) IN
           /\ pre.rows[r][i] = Str(<<" ", "A">>)
           /\ df.rows[r][i] = Str(<<"a">>)

SaveFailed == Called("save") /\ lastOp.args[1].step # "none"

\* C13: whenever writing the CSV fails, save raises OSError (an OSError or
\* one of its subclasses, never another exception and never a normal
\* return), and the table of the scrubber is the one before the call.
C13_SaveFailureIsOSError ==
    SaveFailed =>
        /\ raised \in OSErrors
        /\ df = pre

\* C13 witness: to_csv failed with an exception that is not an OSError,
\* and save raised OSError over a table with rows
C13_Witness ==
    /\ SaveFailed
    /\ lastOp.args[1].step = "to_csv"
    /\ lastOp.args[1].exc \notin OSErrors
    /\ raised = "OSError"
    /\ Len(df.rows) > 0

\* the date a cell parses to: the date written in a text that is a date,
\* a missing value for a missing cell and for a text that is no date
ParsesTo(before, after) ==
    IF before.t = "str" /\ IsDateText(before.s)
    THEN after.t = "date" /\ after.s = Strip(before.s)
    ELSE (before.t \in {"na", "str"}) => IsMissing(after)

ParsedInto(t) ==
    /\ HasColumn(t, lastOp.args[2])
    /\ Len(t.rows) = Len(pre.rows)
    /\ \A r \in DOMAIN pre.rows :
           ParsesTo(pre.rows[r][Idx(pre, lastOp.args[1])],
                    t.rows[r][Idx(t, lastOp.args[2])])

\* C14 (as claimed): after parse_date_column(column, new_column) the
\* column new_column holds, row by row, the date parsed from column or a
\* missing value, and the source column, every other column that existed,
\* the row count and the row order are unchanged, also when new_column
\* names a column that already exists.
C14_ParseTouchesNothingElse ==
    Completed("parse_date_column") =>
        /\ ParsedInto(df)
        /\ \A i \in DOMAIN pre.columns :
               /\ df.columns[i] = pre.columns[i]
               /\ \A r \in DOMAIN pre.rows : df.rows[r][i] = pre.rows[r][i]

\* C14 (amended): the same, except that a column already named new_column
\* (the source column itself when new_column = column) is replaced by the
\* parsed dates; a new_column that did not exist is appended as the last
\* column.
C14_ParseTouchesOnlyNewColumn ==
    Completed("parse_date_column") =>
        /\ ParsedInto(df)
        /\ \A i \in DOMAIN pre.columns :
               /\ df.columns[i] = pre.columns[i]
               /\ pre.columns[i] # lastOp.args[2] =>
                      \A r \in DOMAIN pre.rows : df.rows[r][i] = pre.rows[r][i]
        /\ df.columns = IF HasColumn(pre, lastOp.args[2])
                        THEN pre.columns
                        ELSE Append(pre.columns, lastOp.args[2])

\* C14 witness: the dates were parsed over a column that already existed
\* and held other values; a date, a text that is no date and a missing
\* cell were among the values read
C14_Witness ==
    /\ Completed("parse_date_column")
    /\ lastOp.args[1] = date
    /\ lastOp.args[2] = parsed_date
    /\ HasColumn(pre, parsed_date)
    /\ Column(df, parsed_date) # Column(pre, parsed_date)
    /\ Column(df, date) = Column(pre, date)
    /\ \E r \in DOMAIN pre.rows : Column(df, parsed_date)[r].t = "date"
    /\ \E r \in DOMAIN pre.rows : Column(pre, date)[r] = Str(<<"x">>)
    /\ \E r \in DOMAIN pre.rows : Column(pre, date)[r] = NA

\* the keys of the rows of a table of the warehouse
Keys(rows) == {row[1] : row \in rows}

\* the four references of a row of sale, in the order of sale_columns
Resolves(db, sale) ==
    /\ sale[2] \in Keys(db.customer)
    /\ sale[3] \in Keys(db.product)
    /\ sale[4] \in Keys(db.store)
    /\ sale[5] \in Keys(db.campaign)

\* C15: after load_data_to_db has completed, every row of sale refers to
\* a customer, a product, a store and a campaign that are rows of their
\* tables: a sales file with a reference that does not resolve makes the
\* load raise and is not stored.
C15_ForeignKeysResolve ==
    Completed("load_data_to_db") =>
        \A sale \in disk.sale : Resolves(disk, sale)

\* the file a stage left is one the loader can take: it is there, it can
\* be read, and it has the columns the loader selects
Feeds(f, names) == f.exists /\ f.readable /\ HasAll(f.table, names)

\* C16: a stage that has run to its end on a raw file with the original
\* header leaves, under the file name the loader reads, a file with the
\* snake_case columns the loader selects: customers_prepared.csv with
\* customer_id, loyalty_points, engagement_style (and region, join_date),
\* products_prepared.csv with product_id, product_name, category,
\* unit_price, sales_data_prepared.csv with transaction_id or sale_id and
\* customer_id, product_id, store_id, campaign_id, sale_amount, sale_date,
\* discount_percent.
C16_StagesFeedLoader ==
    (run.pc = "pipeline" /\ raised = "none") =>
        /\ (/\ lastOp.op = "prepare_customers_main"
            /\ Feeds(files[CustomersRawPath], OriginalCustomers))
           => Feeds(files[CustomersPrepared], customer_columns)
        /\ (/\ lastOp.op = "prepare_products_main"
            /\ Feeds(files[ProductsRawPath], OriginalProducts))
           => Feeds(files[ProductsPrepared], product_columns)
        /\ (/\ lastOp.op \in {"prepare_sales_main", "prepare_sales_script"}
            /\ Feeds(files[SalesRawPath], OriginalSales))
           => /\ Feeds(files[SalesDataPrepared], Tail(sale_columns))
              /\ \/ HasColumn(files[SalesDataPrepared].table, transaction_id)
                 \/ HasColumn(files[SalesDataPrepared].table, sale_id)

DemoNames == Range(DemoDatasets)

\* the dataset could not be read, scrubbed or saved
DemoFailed(name) ==
    run.status[name] \in {"missing", "read_csv", "scrub", "mkdir", "to_csv"}

\* the loop of demo_scrubber goes on after a failure: a finished run has
\* gone through the three datasets in their order, and every dataset has
\* the outcome that its own raw file and its own save give it, whatever
\* happened to the datasets before it: a readable file whose save
\* succeeds is written, cleaned, at its cleaned path
DemoGoesOn ==
    /\ (run.pc = "done" /\ run.setup = "ok") => run.visited = DemoDatasets
    /\ Called("process_datasets") =>
           LET name == lastOp.args[1]
               raw == files[RawPath(name)]
           IN  /\ run.status[name] = DemoStatus(raw, lastOp.args[2])
               /\ (raw.exists /\ raw.readable /\ lastOp.args[2].step = "none") =>
                      /\ run.status[name] = "saved"
                      /\ files[CleanedPath(name)]
                            = Csv(DemoScrub(raw.table, lastOp.args[2]).df)

\* C17 (as claimed): demo_scrubber continues with the next dataset when a
\* file is missing or a read, a scrubbing step or the save fails, and a
\* dataset that failed leaves no cleaned file written by this run: its
\* cleaned path holds what it held when the run started.
C17_FailedDatasetWritesNothing ==
    /\ DemoGoesOn
    /\ \A name \in DemoNames :
           (run.pc # "start" /\ DemoFailed(name)) =>
               files[CleanedPath(name)] = pre[CleanedPath(name)]

\* C17 (amended): the same, except that a dataset whose save failed while
\* to_csv was writing can leave an incomplete file at its cleaned path,
\* never a complete one.
C17_FailedDatasetWritesNoWholeFile ==
    /\ DemoGoesOn
    /\ \A name \in DemoNames :
           (run.pc # "start" /\ DemoFailed(name)) =>
               /\ files[CleanedPath(name)] \in {pre[CleanedPath(name)], Garbled}
               /\ run.status[name] # "to_csv" =>
                      files[CleanedPath(name)] = pre[CleanedPath(name)]

\* C17 witness: a finished run in which customers could not be read, the
\* save of products broke while writing and left an incomplete file, and
\* sales was nevertheless cleaned and saved
C17_Witness ==
    /\ run.pc = "done"
    /\ run.status["customers"] = "read_csv"
    /\ run.status["products"] = "to_csv"
    /\ files[CleanedPath("products")] = Garbled
    /\ pre[CleanedPath("products")] # Garbled
    /\ run.status["sales"] = "saved"
    /\ files[CleanedPath("sales")].readable
    /\ files[CleanedPath("sales")] # pre[CleanedPath("sales")]

\* C18: demo_scrubber.main returns 0 only if no read, scrubbing step or
\* save of a dataset raised, and returns a non-zero code if one did or if
\* DataScrubber could not be imported.
C18_ExitCodeTellsFailure ==
    run.pc = "done" =>
        (run.exit = 0 <=>
            /\ run.setup = "ok"
            /\ \A name \in DemoNames :
                   run.status[name] \notin {"read_csv", "scrub", "mkdir", "to_csv"})

\* reading, cleaning or saving failed in the last run of clean_customers
CleanFailed ==
    LET raw == pre[CustomersRaw] IN
    \/ lastOp.args[1] # "ok"
    \/ ~raw.exists \/ ~raw.readable
    \/ CleanScrub(raw.table).raised # "none"
    \/ lastOp.args[2].step # "none"

\* C19: clean_customers always ends by returning an exit code and never
\* lets an exception escape, for every input file: 1 when reading,
\* cleaning or saving failed and 0 otherwise; when it returns 0 the
\* cleaned file has been written.
C19_AlwaysReturnsExitCode ==
    Called("clean_customers") =>
        /\ raised = "none"
        /\ run.pc = "done"
        /\ run.exit = IF CleanFailed THEN 1 ELSE 0
        /\ run.exit = 0 =>
               files[CustomersCleaned] = Csv(CleanScrub(pre[CustomersRaw].table).df)

Readers == {"read_and_log", "customers.read_raw_data", "products.read_raw_data"}

\* C20: read_and_log and the read_raw_data of the customers and products
\* stages never raise: when the file does not exist or cannot be read, an
\* error is logged and the empty table (no rows, no columns) is returned;
\* when the read succeeds, the table read is returned and no error is
\* logged.
C20_ReadersNeverRaise ==
    lastOp.op \in Readers =>
        LET f == files[lastOp.args[1]] IN
        /\ raised = "none"
        /\ (f.exists /\ f.readable) =>
               /\ ret = Returned(f.table)
               /\ "ERROR" \notin Range(log)
        /\ ~(f.exists /\ f.readable) =>
               /\ ret = Returned(EmptyTable)
               /\ "ERROR" \in Range(log)

\* C20 witness: read_raw_data of the customers stage was called on a file
\* that exists and is not parseable, after a read that returned a table
\* with rows
C20_Witness ==
    /\ lastOp.op = "customers.read_raw_data"
    /\ files[lastOp.args[1]] = Garbled
    /\ ret = Returned(EmptyTable)
    /\ raised = "none"
    /\ \E path \in RawPaths : files[path].readable /\ files[path].table.rows # <<>>

\* C21: a method that raises ValueError for an absent column leaves the
\* table exactly as it was before the call, columns, rows and cells:
\* rename_columns with an existing and an absent key renames nothing,
\* reorder_columns with an absent name reorders nothing, filter_outliers on
\* an absent column neither coerces nor removes anything.
C21_ValueErrorLeavesTable ==
    (CalledWithAbsentColumn /\ raised = "ValueError") => df = pre

\* C21 witness: rename_columns was given an existing key beside an absent
\* one over a table with rows, and raised ValueError
C21_Witness ==
    /\ Called("rename_columns")
    /\ raised = "ValueError"
    /\ pre.rows # <<>>
    /\ \E old \in DOMAIN lastOp.args[1] : HasColumn(pre, old)
    /\ \E old \in DOMAIN lastOp.args[1] : ~HasColumn(pre, old)

\* the number a cell of discount_percent or sale_amount stands for
Numeric(t, column, r) == ToNumeric(Column(t, column)[r])

\* C22: correct_zero_sales_discount adds and removes no row; every row
\* whose sale_amount is 0 and whose discount_percent was missing, not a
\* number, below 0 or above 100 has discount_percent 100 afterwards; every
\* row whose sale_amount is not 0 keeps its numeric discount_percent.
C22_ZeroSalesGetFullDiscount ==
    Completed("correct_zero_sales_discount") =>
        /\ Len(df.rows) = Len(pre.rows)
        /\ \A r \in DOMAIN pre.rows :
              LET amount == Numeric(pre, sale_amount, r)
                  before == Numeric(pre, discount_percent, r)
                  after == Column(df, discount_percent)[r]
              IN  /\ (/\ amount = Num(0)
                      /\ (IsMissing(before) \/ before.n < 0 \/ before.n > 100))
                     => after = Num(100)
                  /\ (amount # Num(0) /\ ~IsMissing(before)) => after = before

\* C23: override_invalid_dates(column, fixed_date) adds and removes no
\* row; every value of column that was missing or not parseable as a date
\* equals fixed_date afterwards and every parseable value is unchanged; so
\* when fixed_date is itself a date, every value of column parses as a
\* date and a second call changes nothing.
C23_InvalidDatesOverridden ==
    Completed("override_invalid_dates") =>
        LET column == lastOp.args[1]
            fixed_date == lastOp.args[2]
            old == Column(pre, column)
            new == Column(df, column)
        IN  /\ Len(df.rows) = Len(pre.rows)
            /\ \A r \in DOMAIN old :
                  new[r] = IF IsMissing(ToDatetime(old[r])) THEN Str(fixed_date)
                           ELSE old[r]
            /\ IsDateText(fixed_date) =>
                  /\ \A r \in DOMAIN new : ~IsMissing(ToDatetime(new[r]))
                  /\ override_invalid_dates(Self, column, fixed_date).df = df

\* C23 witness: a column holding a date, a text that is no date and a
\* missing value was overridden with the default date
C23_Witness ==
    /\ Completed("override_invalid_dates")
    /\ lastOp.args = <<date, DefaultFixedDate>>
    /\ \E r \in DOMAIN pre.rows : Column(pre, date)[r] = Str(<<"x">>)
    /\ \E r \in DOMAIN pre.rows : Column(pre, date)[r] = NA
    /\ \E r \in DOMAIN pre.rows :
          /\ Column(pre, date)[r] = Str(<<"2","0","2","3","-","0","1","-","0","1">>)
          /\ Column(df, date)[r] = Column(pre, date)[r]
    /\ df # pre

\* a row of sale without its sale_date, the seventh of sale_columns
Undated(row) == SubSeq(row, 1, 6) \o <<row[8]>>

\* the name under which a prepared sales table carries the key of a sale
SaleKeyName(t) == IF HasColumn(t, transaction_id) THEN transaction_id ELSE sale_id

\* row r of a prepared sales table in the order of sale_columns
FileSale(t, r) ==
    [k \in DOMAIN sale_columns |->
        t.rows[r][Idx(t, IF k = 1 THEN SaleKeyName(t) ELSE sale_columns[k])]]

\* the rows of a prepared sales table that are the first with their key
FirstSales(t) ==
    {r \in DOMAIN t.rows :
        \A q \in 1..(r - 1) : FileSale(t, q)[1] # FileSale(t, r)[1]}

SameButDates(a, b) ==
    /\ a.customer = b.customer
    /\ a.product = b.product
    /\ a.store = b.store
    /\ a.campaign = b.campaign
    /\ {Undated(row) : row \in a.sale} = {Undated(row) : row \in b.sale}

\* C24: the load is a full refresh: after load_data_to_db has completed,
\* whatever the five tables held before, customer and product hold exactly
\* the rows of their prepared files, sale holds exactly one row per
\* distinct sale_id of the prepared sales file, the first with that id,
\* store and campaign hold exactly their 4 reference rows; and a second
\* run on the same files completes and leaves the same contents, the
\* random sale_date aside.
C24_LoadIsFullRefresh ==
    Completed("load_data_to_db") =>
        LET c == files[CustomersPrepared].table
            p == files[ProductsPrepared].table
            s == files[SalesDataPrepared].table
        IN  /\ disk.customer = Range(SelectColumns(c, customer_columns).rows)
            /\ disk.product = Range(SelectColumns(p, product_columns).rows)
            /\ {Undated(row) : row \in disk.sale}
                   = {Undated(FileSale(s, r)) : r \in FirstSales(s)}
            /\ Cardinality(disk.sale) = Cardinality(FirstSales(s))
            /\ \A row \in disk.sale : row[7] \in {Str(d) : d \in RandomSaleDates}
            /\ disk.store = MockStores /\ Cardinality(disk.store) = 4
            /\ disk.campaign = MockCampaigns /\ Cardinality(disk.campaign) = 4
            /\ \A dates \in [1..DatedRows(files) -> RandomSaleDates] :
                  LET again == load_data_to_db(disk, files, "ok", dates) IN
                  again.raised = "none" /\ SameButDates(again.disk, disk)

\* C24 witness: a load completed over a warehouse that held a customer and
\* a product of an earlier load which the files do not have, on a sales
\* file with two rows of one sale_id
C24_Witness ==
    /\ Completed("load_data_to_db")
    /\ CustomerRow(7, East) \in pre.customer
    /\ CustomerRow(7, East) \notin disk.customer
    /\ Len(files[SalesDataPrepared].table.rows) = 2
    /\ Cardinality(disk.sale) = 1

\* C25: a failed load does not destroy the previous load: when
\* load_data_to_db raises because a prepared file is missing or lacks a
\* column the loader selects, the five tables hold the rows they held
\* before the call; and when opening the connection fails, the tables are
\* as before and the error of the connection is the one that propagates.
C25_FailedLoadKeepsPreviousLoad ==
    Called("load_data_to_db") =>
        /\ (lastOp.args[1] = "ok" /\ raised \in {"FileNotFoundError", "KeyError"})
           => disk = pre
        /\ lastOp.args[1] = "fails"
           => (disk = pre /\ raised = "OperationalError")

\* the texts clean_values maps EngagementStyle to
CleanStyles == {Str(Mobile), Str(<<"D","e","s","k","t","o","p">>), Str(InStore), Str(Unknown)}

\* C26: every row that prepare_customers_data.main writes to
\* customers_prepared.csv, from a raw file that has both columns, has a
\* LoyaltyPoints that is a whole number not below 0 and never missing, an
\* EngagementStyle that is one of Mobile, Desktop, InStore and Unknown,
\* and no two written rows are identical in every column.
C26_PreparedCustomersAreClean ==
    (run.pc = "pipeline" /\ lastOp.op = "prepare_customers_main" /\ raised = "none") =>
        LET t == files[CustomersPrepared].table
            points == Column(t, LoyaltyPoints)
            styles == Column(t, EngagementStyle)
        IN  /\ \A r \in DOMAIN t.rows : points[r].t = "num" /\ points[r].n >= 0
            /\ \A r \in DOMAIN t.rows : styles[r] \in CleanStyles
            /\ \A r, q \in DOMAIN t.rows : r # q => t.rows[r] # t.rows[q]

====
